---- MODULE Spec2Model ----
(***************************************************************************)
(* Batch-evaluation orchestrator of prismm-bench                           *)
(* (src/evaluation_framework/utils/providers/gemini_batch.py,              *)
(*  openai_batch.py, base.py, src/evaluation_framework/utils/helpers.py).  *)
(*                                                                         *)
(* Strings whose characters matter (correlation keys, ids, question types) *)
(* are sequences of one-character strings, so that split/join/replace are  *)
(* computed character by character as Python computes them.                *)
(* Request sizes are integers: one unit stands for one unit of             *)
(* len(json.dumps(request)) / (1024 * 1024).                               *)
(***************************************************************************)
EXTENDS Integers, Sequences, FiniteSets, TLC

VARIABLES
    phase,              \* which operation of the development acted last
    requests,           \* argument of _split_batch_requests
    max_batch_size_mb,  \* self.max_batch_size_mb
    batches,            \* value returned by _split_batch_requests
    key_provider,       \* "gemini" or "openai": whose key decoding is applied
    key_fields,         \* the seven values a correlation key is built from
    key_format,         \* "current" (7 fields) or "legacy" (6 fields)
    custom_id,          \* the key string of a request / of a result line
    decoded,            \* what get_batch_results unpacks from the key string
    annotation_file,    \* the entries iter_annotations yields, in file order
    batch_requests,     \* self.batch_requests
    batch_jobs,         \* self.batch_jobs: handles [file_name, batch_name]
    file_name,          \* self.file_name (primary handle), 0 for None
    batch_name,         \* self.batch_name (primary handle), 0 for None
    responses,          \* self.responses
    remote_files,       \* the provider's File API: name (index) -> content
    remote_jobs,        \* the provider's batch jobs: name (index) -> job
    results_file,       \* the results file written last by write_results
    last_run,           \* what the last run_mcq_inference call built and did
    call,               \* the last call of a provider method and how it ended
    wait,               \* the running wait_for_completion call, if any
    result_line,        \* one raw result line handed to the reconciliation
    scored,             \* the record the reconciliation makes of result_line
    results1,           \* content of binary_file_1 of merge_binary_results
    results2,           \* content of binary_file_2 of merge_binary_results
    merged,             \* how merge_binary_results ended and what it wrote
    mcq,                \* [question_type, item]: the arguments of prepare_answers
    prepared,           \* the answers and correct letter returned for mcq
    document,           \* the arguments of convert_whole_doc_to_base64_list
    images              \* the images it returned, each the pages it tiles

splitVars == <<requests, batches>>
keyVars == <<key_provider, key_fields, key_format, custom_id, decoded>>
providerVars == <<batch_requests, batch_jobs, file_name, batch_name, responses>>
remoteVars == <<remote_files, remote_jobs>>
orchVars == <<annotation_file, providerVars, remoteVars, results_file,
              last_run, call, wait>>
pureVars == <<result_line, scored, results1, results2, merged, mcq, prepared, document, images>>
vars == <<phase, max_batch_size_mb, splitVars, keyVars, orchVars, pureVars>>

(***************************************************************************)
(* Bounds of the model.                                                    *)
(***************************************************************************)
MaxRequests == 4        \* longest request list handed to the chunker
MaxRequestSize == 3     \* largest estimated size of one request
MaxBatchBytes == 4      \* largest configured max_batch_size_mb
MaxIdx == 10            \* largest index of an entry under one id
MaxEntries == 2         \* most entries of the annotation file
MaxEntrySize == 2       \* largest estimated size of one built request
MaxOrchBatchBytes == 2  \* largest max_batch_size_mb of the provider object
MaxRuns == 2            \* most run_mcq_inference calls on the object
MaxJobs == 2            \* most batch jobs created at the remote service
MaxTimeout == 1         \* longest timeout of wait_for_completion
MaxInterval == 1        \* longest poll interval of wait_for_completion
MaxPollDelay == 1       \* longest time one status sweep takes

(***************************************************************************)
(* Generic sequence helpers.                                               *)
(***************************************************************************)
RECURSIVE Flatten(_)
Flatten(ss) == IF ss = <<>> THEN <<>> ELSE Head(ss) \o Flatten(Tail(ss))

RECURSIVE SumSizes(_)
SumSizes(rs) == IF rs = <<>> THEN 0 ELSE Head(rs).size + SumSizes(Tail(rs))

SeqsUpTo(S, n) == UNION {[1..k -> S] : k \in 0..n}

(***************************************************************************)
(* Python string operations on character sequences.                        *)
(***************************************************************************)
\* s.replace(a, b) for one-character a and b
str_replace(s, a, b) == [i \in 1..Len(s) |-> IF s[i] = a THEN b ELSE s[i]]

\* sep.join(parts)
RECURSIVE str_join(_, _)
str_join(parts, sep) ==
    IF parts = <<>> THEN <<>>
    ELSE IF Len(parts) = 1 THEN parts[1]
    ELSE parts[1] \o <<sep>> \o str_join(Tail(parts), sep)

\* s.split(sep): n occurrences of sep give n + 1 parts, empty ones included
RECURSIVE str_split(_, _)
str_split(s, sep) ==
    IF \A i \in 1..Len(s) : s[i] # sep THEN <<s>>
    ELSE LET k == CHOOSE i \in 1..Len(s) :
                      s[i] = sep /\ \A j \in 1..(i - 1) : s[j] # sep
         IN <<SubSeq(s, 1, k - 1)>> \o str_split(SubSeq(s, k + 1, Len(s)), sep)

Digit == <<"0", "1", "2", "3", "4", "5", "6", "7", "8", "9">>

\* str(n) of a non-negative int, as an f-string formats it
RECURSIVE str_int(_)
str_int(n) == IF n < 10 THEN <<Digit[n + 1]>>
              ELSE str_int(n \div 10) \o <<Digit[(n % 10) + 1]>>

\* s.strip(chars)
RECURSIVE str_lstrip(_, _)
str_lstrip(s, chars) ==
    IF s # <<>> /\ s[1] \in chars THEN str_lstrip(Tail(s), chars) ELSE s

RECURSIVE str_rstrip(_, _)
str_rstrip(s, chars) ==
    IF s # <<>> /\ s[Len(s)] \in chars
    THEN str_rstrip(SubSeq(s, 1, Len(s) - 1), chars) ELSE s

str_strip(s, chars) == str_rstrip(str_lstrip(s, chars), chars)

LowerCase ==
    <<"a", "b", "c", "d", "e", "f", "g", "h", "i", "j", "k", "l", "m", "n", "o", "p", "q", "r", "s", "t", "u", "v", "w", "x", "y", "z">>
UpperCase ==
    <<"A", "B", "C", "D", "E", "F", "G", "H", "I", "J", "K", "L", "M", "N", "O", "P", "Q", "R", "S", "T", "U", "V", "W", "X", "Y", "Z">>

\* s.upper() on ASCII letters
str_upper(s) ==
    [i \in 1..Len(s) |->
        IF \E k \in 1..26 : LowerCase[k] = s[i]
        THEN UpperCase[CHOOSE k \in 1..26 : LowerCase[k] = s[i]]
        ELSE s[i]]

StrTrue == <<"T", "r", "u", "e">>
StrFalse == <<"F", "a", "l", "s", "e">>

\* str(b) of a bool, as an f-string formats it
str_bool(b) == IF b THEN StrTrue ELSE StrFalse

(***************************************************************************)
(* Chunker: _estimate_request_size_mb, _estimate_total_size_mb,            *)
(* _split_batch_requests (identical in both batch providers).              *)
(***************************************************************************)
_estimate_request_size_mb(request) == request.size

_estimate_total_size_mb(rs) == SumSizes(rs)

\* Mutant of the loop body: the size test is made without the
\* "current_batch and" guard and the closed chunk is appended even when empty.
SplitStepNoGuard(st, request, maxmb) ==
    LET request_size_mb == _estimate_request_size_mb(request) IN
    IF st.current_size_mb + request_size_mb > maxmb
    THEN [batches |-> Append(st.batches, st.current_batch),
          current_batch |-> <<request>>,
          current_size_mb |-> request_size_mb]
    ELSE [batches |-> st.batches,
          current_batch |-> Append(st.current_batch, request),
          current_size_mb |-> st.current_size_mb + request_size_mb]

\* Mutant of the loop body: a new chunk is started only after the limit has
\* been passed (the test looks at the size before adding the request).
SplitStepLate(st, request, maxmb) ==
    LET request_size_mb == _estimate_request_size_mb(request) IN
    IF st.current_batch # <<>> /\ st.current_size_mb > maxmb
    THEN [batches |-> Append(st.batches, st.current_batch),
          current_batch |-> <<request>>,
          current_size_mb |-> request_size_mb]
    ELSE [batches |-> st.batches,
          current_batch |-> Append(st.current_batch, request),
          current_size_mb |-> st.current_size_mb + request_size_mb]

\* Mutant of the loop body: a new chunk is started as soon as the limit is
\* reached (>= instead of >).
SplitStepEager(st, request, maxmb) ==
    LET request_size_mb == _estimate_request_size_mb(request) IN
    IF st.current_batch # <<>> /\ (st.current_size_mb + request_size_mb) >= maxmb
    THEN [batches |-> Append(st.batches, st.current_batch),
          current_batch |-> <<request>>,
          current_size_mb |-> request_size_mb]
    ELSE [batches |-> st.batches,
          current_batch |-> Append(st.current_batch, request),
          current_size_mb |-> st.current_size_mb + request_size_mb]

\* One iteration of "for request in requests" (lines 60-73).
SplitStep(st, request, maxmb) ==
    LET request_size_mb == _estimate_request_size_mb(request) IN
    IF st.current_batch # <<>> /\ (st.current_size_mb + request_size_mb) > maxmb
    THEN [batches |-> Append(st.batches, st.current_batch),
          current_batch |-> <<request>>,
          current_size_mb |-> request_size_mb]
    ELSE [batches |-> st.batches,
          current_batch |-> Append(st.current_batch, request),
          current_size_mb |-> st.current_size_mb + request_size_mb]

RECURSIVE SplitLoop(_, _, _)
SplitLoop(rs, st, maxmb) ==
    IF rs = <<>> THEN st
    ELSE SplitLoop(Tail(rs), SplitStep(st, Head(rs), maxmb), maxmb)

\* Mutant: the batch still open after the loop is not appended.
_split_batch_requests_no_tail(rs, maxmb) ==
    SplitLoop(rs, [batches |-> <<>>, current_batch |-> <<>>,
                   current_size_mb |-> 0], maxmb).batches

_split_batch_requests(rs, maxmb) ==
    LET st == SplitLoop(rs,
                        [batches |-> <<>>, current_batch |-> <<>>,
                         current_size_mb |-> 0],
                        maxmb)
    IN IF st.current_batch # <<>>
       THEN Append(st.batches, st.current_batch)
       ELSE st.batches

\* Values of the variables a specification does not use.
SplitIdle == requests = <<>> /\ batches = <<>>

KeyIdle ==
    /\ key_provider = "none"
    /\ key_fields = <<>>
    /\ key_format = "none"
    /\ custom_id = <<>>
    /\ decoded = <<>>

OrchIdle ==
    /\ annotation_file = <<>>
    /\ batch_requests = <<>>
    /\ batch_jobs = <<>>
    /\ file_name = 0
    /\ batch_name = 0
    /\ responses = <<>>
    /\ remote_files = <<>>
    /\ remote_jobs = <<>>
    /\ results_file = <<>>
    /\ last_run = <<>>
    /\ call = <<>>
    /\ wait = <<>>

PureIdle ==
    /\ result_line = <<>>
    /\ scored = <<>>
    /\ results1 = <<>>
    /\ results2 = <<>>
    /\ merged = <<>>
    /\ mcq = <<>>
    /\ prepared = <<>>
    /\ document = <<>>
    /\ images = <<>>

(***************************************************************************)
(* Specification SpecSplit: the chunker applied to every request list and  *)
(* every limit within the bounds.  A request is [key, size]; the key is    *)
(* the request's position, so that equal sizes stay distinguishable.       *)
(***************************************************************************)
SplitInputs ==
    {[i \in 1..Len(sz) |-> [key |-> i, size |-> sz[i]]] :
        sz \in SeqsUpTo(1..MaxRequestSize, MaxRequests)}

InitSplit ==
    /\ phase = "input"
    /\ requests \in SplitInputs
    /\ max_batch_size_mb \in 0..MaxBatchBytes
    /\ batches = <<>>
    /\ KeyIdle
    /\ OrchIdle
    /\ PureIdle

Split ==
    /\ phase = "input"
    /\ phase' = "split"
    /\ batches' = _split_batch_requests(requests, max_batch_size_mb)
    /\ UNCHANGED <<requests, max_batch_size_mb, keyVars, orchVars, pureVars>>

NextSplit == Split

SpecSplit == InitSplit /\ [][NextSplit]_vars

(***************************************************************************)
(* Claims about the chunker (checked under SpecSplit).                     *)
(***************************************************************************)
ChunkOf(req) == {i \in 1..Len(batches) :
                    \E j \in 1..Len(batches[i]) : batches[i][j] = req}

\* C1: the chunks returned by _split_batch_requests, concatenated in chunk
\* order, are exactly the input list: every request is in exactly one chunk,
\* no chunk is empty, and the order within and across chunks is the input
\* order.
C1_SplitConcatenation ==
    phase = "split" =>
        /\ Flatten(batches) = requests
        /\ \A i \in 1..Len(batches) : batches[i] # <<>>
        /\ \A k \in 1..Len(requests) : Cardinality(ChunkOf(requests[k])) = 1

C1_Witness ==
    /\ phase = "split"
    /\ Len(batches) >= 2
    /\ \E i \in 1..Len(batches) : Len(batches[i]) >= 2
    /\ \E k \in 1..Len(requests) :
          _estimate_request_size_mb(requests[k]) > max_batch_size_mb

\* C2: every returned chunk that holds more than one request has a total
\* estimated size <= max_batch_size_mb, and a request whose own size exceeds
\* the limit is emitted, unsplit and unrejected, as a chunk holding only it.
C2_ChunkWithinLimit ==
    phase = "split" =>
        /\ \A i \in 1..Len(batches) :
              Len(batches[i]) > 1 =>
                  _estimate_total_size_mb(batches[i]) <= max_batch_size_mb
        /\ \A k \in 1..Len(requests) :
              _estimate_request_size_mb(requests[k]) > max_batch_size_mb =>
                  \E i \in 1..Len(batches) : batches[i] = <<requests[k]>>

C2_Witness ==
    /\ phase = "split"
    /\ \E i \in 1..Len(batches) :
          /\ Len(batches[i]) > 1
          /\ _estimate_total_size_mb(batches[i]) = max_batch_size_mb
    /\ \E k \in 1..Len(requests) :
          /\ _estimate_request_size_mb(requests[k]) > max_batch_size_mb
          /\ k > 1

\* The chunks a division of the requests at the positions cuts consists of:
\* requests a..b with a cut (or the start) before a, a cut (or the end)
\* after b, and no cut in between.
CutChunks(cuts) ==
    {SubSeq(requests, a, b) : <<a, b>> \in
        {p \in (1..Len(requests)) \X (1..Len(requests)) :
            /\ p[1] <= p[2]
            /\ p[1] = 1 \/ (p[1] - 1) \in cuts
            /\ p[2] = Len(requests) \/ p[2] \in cuts
            /\ \A k \in p[1]..(p[2] - 1) : k \notin cuts}}

\* A chunk the limit allows: within the limit, or a single request.
AllowedChunk(c) ==
    Len(c) = 1 \/ _estimate_total_size_mb(c) <= max_batch_size_mb

\* C17: no division of the input list into consecutive chunks, each within
\* the limit or a single request, has fewer chunks than the result of
\* _split_batch_requests.
C17_FewestChunks ==
    phase = "split" =>
        IF requests = <<>> THEN batches = <<>>
        ELSE \A cuts \in SUBSET (1..(Len(requests) - 1)) :
                (\A c \in CutChunks(cuts) : AllowedChunk(c)) =>
                    Cardinality(cuts) + 1 >= Len(batches)

\* The scenario of 2500 requests of 1 MB under a limit of 1900, scaled: as
\* many requests of size 1 as fit, the limit one less, two chunks.
C17_Witness ==
    /\ phase = "split"
    /\ Len(requests) = MaxRequests
    /\ \A k \in 1..Len(requests) : _estimate_request_size_mb(requests[k]) = 1
    /\ max_batch_size_mb = MaxRequests - 1
    /\ Len(batches) = 2
    /\ Len(batches[1]) = MaxRequests - 1

\* C18: running _split_batch_requests again, with the same limit, on the
\* concatenation of the chunks it returned gives the same chunks; each
\* returned chunk on its own stays one chunk.
C18_SplitIdempotent ==
    phase = "split" =>
        /\ _split_batch_requests(Flatten(batches), max_batch_size_mb) = batches
        /\ \A i \in 1..Len(batches) :
              _split_batch_requests(batches[i], max_batch_size_mb) =
                  <<batches[i]>>

C18_Witness ==
    /\ phase = "split"
    /\ Len(batches) = 3
    /\ Len(batches[2]) >= 2
    /\ _estimate_total_size_mb(batches[1]) > max_batch_size_mb

(***************************************************************************)
(* Correlation key: built in _handle_one_annotation (and its two           *)
(* siblings), unpacked in get_batch_results.                               *)
(***************************************************************************)
QtDefault == <<"d", "e", "f", "a", "u", "l", "t">>
QtEdit == <<"e", "d", "i", "t">>
QtPartPair == <<"p", "a", "r", "t", "_", "p", "a", "i", "r">>
QtBinaryConsistent == <<"b", "i", "n", "a", "r", "y", "_", "c", "o", "n", "s", "i", "s", "t", "e", "n", "t">>

\* custom_id = f"{id}_{idx}_{question_type.replace('_', '-')}_{correct_letter}
\*               _{whole_page}_{whole_doc}_{without_context}"
make_custom_id(id, idx, question_type, correct_letter, whole_page, whole_doc, without_context) ==
    str_join(<<id, str_int(idx), str_replace(question_type, "_", "-"),
               correct_letter, str_bool(whole_page), str_bool(whole_doc),
               str_bool(without_context)>>, "_")

\* The older key format, without whole_doc, that get_batch_results still
\* accepts "for backwards compatibility".
make_legacy_custom_id(id, idx, question_type, correct_letter, whole_page, without_context) ==
    str_join(<<id, str_int(idx), str_replace(question_type, "_", "-"),
               correct_letter, str_bool(whole_page),
               str_bool(without_context)>>, "_")

KeyError == [error |-> "ValueError", id |-> <<>>, idx |-> <<>>,
             question_type |-> <<>>, correct_letter |-> <<>>,
             whole_page |-> <<>>, whole_doc |-> <<>>, without_context |-> <<>>]

\* Mutant: the field count is not looked at, every key is unpacked as the
\* current seven-field format.
unpack_key_no_branch(parts) ==
    IF Len(parts) = 7
    THEN [error |-> "none", id |-> parts[1], idx |-> parts[2],
          question_type |-> parts[3], correct_letter |-> parts[4],
          whole_page |-> parts[5], whole_doc |-> parts[6],
          without_context |-> parts[7]]
    ELSE KeyError

\* The tuple unpacking of get_batch_results (gemini lines 272-291, openai
\* lines 255-269): six parts are the legacy format, anything else is
\* unpacked into seven names, which raises ValueError unless there are seven.
unpack_key(parts) ==
    IF Len(parts) = 6
    THEN [error |-> "none", id |-> parts[1], idx |-> parts[2],
          question_type |-> parts[3], correct_letter |-> parts[4],
          whole_page |-> parts[5], whole_doc |-> StrFalse,
          without_context |-> parts[6]]
    ELSE IF Len(parts) = 7
    THEN [error |-> "none", id |-> parts[1], idx |-> parts[2],
          question_type |-> parts[3], correct_letter |-> parts[4],
          whole_page |-> parts[5], whole_doc |-> parts[6],
          without_context |-> parts[7]]
    ELSE KeyError

\* gemini: parts = result["key"].split("_"), the unpacking, then
\* question_type = question_type_part.replace("-", "_")
decode_key_gemini(key) ==
    LET u == unpack_key(str_split(key, "_")) IN
    IF u.error # "none" THEN u
    ELSE [u EXCEPT !.question_type = str_replace(u.question_type, "-", "_")]

\* openai: parts = result["custom_id"].split("_") and the unpacking; the
\* question type is kept as it stands in the key.
decode_key_openai(key) == unpack_key(str_split(key, "_"))

decode_key(provider, key) ==
    IF provider = "gemini" THEN decode_key_gemini(key)
    ELSE decode_key_openai(key)

(***************************************************************************)
(* Specification SpecKey: a key is built from seven values, in the current *)
(* or in the legacy format, and unpacked by either provider.               *)
(***************************************************************************)
KeyIds == {<<"p", "1">>, <<"a", "_", "b">>, <<"x", "-", "y">>}
KeyQuestionTypes == {QtDefault, QtEdit, QtPartPair, QtBinaryConsistent}
KeyLetters == {<<"A">>, <<"B">>}

KeyInputs ==
    [id : KeyIds, idx : 0..MaxIdx, question_type : KeyQuestionTypes,
     correct_letter : KeyLetters, whole_page : BOOLEAN, whole_doc : BOOLEAN,
     without_context : BOOLEAN]

InitKey ==
    /\ phase = "input"
    /\ key_provider \in {"gemini", "openai"}
    /\ key_fields \in KeyInputs
    /\ key_format = "none"
    /\ custom_id = <<>>
    /\ decoded = <<>>
    /\ max_batch_size_mb = 0
    /\ SplitIdle
    /\ OrchIdle
    /\ PureIdle

EncodeKey ==
    /\ phase = "input"
    /\ phase' = "encoded"
    /\ key_format' = "current"
    /\ custom_id' = make_custom_id(key_fields.id, key_fields.idx,
                                   key_fields.question_type,
                                   key_fields.correct_letter,
                                   key_fields.whole_page, key_fields.whole_doc,
                                   key_fields.without_context)
    /\ UNCHANGED <<key_provider, key_fields, decoded, max_batch_size_mb,
                   splitVars, orchVars, pureVars>>

EncodeLegacyKey ==
    /\ phase = "input"
    /\ key_fields.whole_doc = FALSE
    /\ phase' = "encoded"
    /\ key_format' = "legacy"
    /\ custom_id' = make_legacy_custom_id(key_fields.id, key_fields.idx,
                                          key_fields.question_type,
                                          key_fields.correct_letter,
                                          key_fields.whole_page,
                                          key_fields.without_context)
    /\ UNCHANGED <<key_provider, key_fields, decoded, max_batch_size_mb,
                   splitVars, orchVars, pureVars>>

DecodeKey ==
    /\ phase = "encoded"
    /\ phase' = "decoded"
    /\ decoded' = decode_key(key_provider, custom_id)
    /\ UNCHANGED <<key_provider, key_fields, key_format, custom_id,
                   max_batch_size_mb, splitVars, orchVars, pureVars>>

NextKey == EncodeKey \/ EncodeLegacyKey \/ DecodeKey

SpecKey == InitKey /\ [][NextKey]_vars

(***************************************************************************)
(* Claims about the correlation key (checked under SpecKey).               *)
(***************************************************************************)
\* The seven values as get_batch_results holds them after unpacking a key
\* that round-trips: strings for id, idx, letter and the three flags.
KeyAsDecoded(f) ==
    [error |-> "none", id |-> f.id, idx |-> str_int(f.idx),
     question_type |-> f.question_type, correct_letter |-> f.correct_letter,
     whole_page |-> str_bool(f.whole_page),
     whole_doc |-> str_bool(f.whole_doc),
     without_context |-> str_bool(f.without_context)]

\* C9: decoding the key string produced by encoding (id, idx, questionType,
\* correctLetter, wholePage, wholeDoc, withoutContext) returns the same field
\* values, for every id, every question type and every combination of the
\* three booleans.
C9_KeyRoundTrip ==
    (phase = "decoded" /\ key_format = "current") =>
        decoded = KeyAsDecoded(key_fields)

HasNoUnderscore(s) == \A i \in 1..Len(s) : s[i] # "_"

\* C10: key decoding branches on the field count: a key of six
\* underscore-separated fields is unpacked as (id, idx, questionType,
\* correctLetter, wholePage, withoutContext) with wholeDoc = "False", a key of
\* seven fields as the current format, and neither raises.
C10_DecodeBranchesOnFieldCount ==
    /\ phase = "decoded" =>
        LET parts == str_split(custom_id, "_") IN
        /\ Len(parts) \in {6, 7} => decoded.error = "none"
        /\ Len(parts) = 6 =>
              /\ decoded.whole_doc = StrFalse
              /\ decoded.without_context = parts[6]
        /\ Len(parts) = 7 =>
              /\ decoded.whole_doc = parts[6]
              /\ decoded.without_context = parts[7]
    /\ (phase = "decoded" /\ HasNoUnderscore(key_fields.id)) =>
        LET f == key_fields
            qt == IF key_provider = "gemini" THEN f.question_type
                  ELSE str_replace(f.question_type, "_", "-")
        IN  /\ decoded.error = "none"
            /\ decoded.id = f.id
            /\ decoded.idx = str_int(f.idx)
            /\ decoded.question_type = qt
            /\ decoded.correct_letter = f.correct_letter
            /\ decoded.whole_page = str_bool(f.whole_page)
            /\ decoded.without_context = str_bool(f.without_context)
            /\ decoded.whole_doc = IF key_format = "legacy" THEN StrFalse
                                   ELSE str_bool(f.whole_doc)

C10_Witness ==
    /\ phase = "decoded"
    /\ key_format = "legacy"
    /\ Len(str_split(custom_id, "_")) = 6
    /\ key_fields.whole_page = TRUE
    /\ key_fields.without_context = FALSE
    /\ decoded.error = "none"
    /\ decoded.whole_doc = StrFalse

(***************************************************************************)
(* The orchestrator: one GeminiBatchProvider object, the annotation file   *)
(* it reads and the remote batch service it talks to.                      *)
(*                                                                         *)
(* Names of uploaded files and of batch jobs are the positions in          *)
(* remote_files and remote_jobs; 0 stands for None.                        *)
(***************************************************************************)
PyNone == <<"None">>     \* Python's None where a string is expected

LetterA == <<"A">>
LetterB == <<"B">>

\* The paper ids an annotation file may be keyed by (OpenReview forum ids,
\* which may hold "_" and "-").
AnnIds == {<<"p", "1">>, <<"a", "_", "b">>}

\* The k-th entry iter_annotations yields for the paper id: (id, idx) =
\* (id, 0), (id, 1), ...; letters[0] is the correct one; part_pair tells
\* what the entry's mcq.part_pair is: "item" for an MCQItem with a question,
\* "blank" for an MCQItem whose question is the empty string, "none" for the
\* default {} of types.py line 56; image_part tells whether one of the
\* inconsistency parts of the entry is an ImageInconsistencyPart (types.py
\* lines 26-29), the others being text parts.
AnnEntry(id, k, sz, pp, img) ==
    [id |-> id, idx |-> k - 1, size |-> sz,
     image_part |-> img,
     letters |-> IF k % 2 = 1 THEN <<LetterB, LetterA>>
                 ELSE <<LetterA, LetterB>>,
     part_pair |-> pp]

\* Files whose entries have text parts only (RunAnnotationFiles has the
\* entries with an image part).
AnnotationFiles ==
    {[k \in 1..Len(sz) |-> AnnEntry(id, k, sz[k], "item", FALSE)] :
        id \in AnnIds, sz \in SeqsUpTo(1..MaxEntrySize, MaxEntries)}

\* needle in haystack
str_contains(haystack, needle) ==
    \E i \in 1..(Len(haystack) - Len(needle) + 1) :
        SubSeq(haystack, i, i + Len(needle) - 1) = needle

\* a < b for strings of upper-case letters, as sorted() compares them
CharRank(c) == CHOOSE k \in 1..26 : UpperCase[k] = c

RECURSIVE str_lt(_, _)
str_lt(a, b) ==
    IF b = <<>> THEN FALSE
    ELSE IF a = <<>> THEN TRUE
    ELSE IF a[1] # b[1] THEN CharRank(a[1]) < CharRank(b[1])
    ELSE str_lt(Tail(a), Tail(b))

\* sorted(keys)
RECURSIVE sorted(_)
sorted(keys) ==
    IF keys = {} THEN <<>>
    ELSE LET m == CHOOSE x \in keys : \A y \in keys \ {x} : str_lt(x, y)
         IN <<m>> \o sorted(keys \ {m})

\* dict(zip(letters, answers)): the keys, and the answer under a key (the
\* last pair of the zip with that letter).
zip_keys(letters, answers) ==
    {letters[k] : k \in 1..(IF Len(letters) < Len(answers) THEN Len(letters)
                             ELSE Len(answers))}

zip_lookup(letters, answers, letter) ==
    LET n == IF Len(letters) < Len(answers) THEN Len(letters) ELSE Len(answers)
        ks == {k \in 1..n : letters[k] = letter}
    IN answers[CHOOSE k \in ks : \A j \in ks : j <= k]

\* Mutant: the correct letter is taken to be the first displayed letter.
correct_letter_first_sorted(letters, sorted_letters) == sorted_letters[1]

\* helpers.py line 31: correct_letter = letters[0]
correct_letter_of(letters, sorted_letters) == letters[1]

\* prepare_answers (helpers.py lines 18-32): the answers in the order of the
\* sorted letters, prefixed "X) " for the binary question types, and the
\* correct letter.
prepare_answers(mcq_item, question_type) ==
    LET answers == <<mcq_item.correct>> \o mcq_item.incorrect
        letters == mcq_item.letters
        sorted_letters == sorted(zip_keys(letters, answers))
    IN [answer_options |->
            [k \in 1..Len(sorted_letters) |->
                IF str_contains(question_type, <<"b", "i", "n", "a", "r", "y">>)
                THEN sorted_letters[k] \o <<")", " ">> \o
                         zip_lookup(letters, answers, sorted_letters[k])
                ELSE zip_lookup(letters, answers, sorted_letters[k])],
        correct_letter |-> correct_letter_of(letters, sorted_letters)]

\* answer_options.index(correct)
list_index(xs, x) == CHOOSE k \in 1..Len(xs) : xs[k] = x /\ \A j \in 1..(k - 1) : xs[j] # x

\* build_part_pair_context (base.py lines 152-163): the guard, the answers
\* in the order of the sorted letters, and the letter at the place of the
\* correct answer.
part_pair_answers(mcq_item) ==
    IF mcq_item.question = <<>> \/ mcq_item.correct = <<>>
    THEN [answer_options |-> <<>>, correct_letter |-> <<>>]
    ELSE LET answers == <<mcq_item.correct>> \o mcq_item.incorrect
             letters == mcq_item.letters
             sorted_letters == sorted(zip_keys(letters, answers))
             answer_options == [k \in 1..Len(sorted_letters) |->
                 zip_lookup(letters, answers, sorted_letters[k])]
         IN [answer_options |-> answer_options,
             correct_letter |->
                 sorted_letters[list_index(answer_options, mcq_item.correct)]]

\* The MCQ item of an annotation entry: the answers are "c" (correct) and
\* "x1", "x2", ... (incorrect), the letters are the entry's.
MCQItemOf(entry) ==
    [question |-> <<"q">>, correct |-> <<"c">>,
     incorrect |-> [k \in 1..(Len(entry.letters) - 1) |-> <<"x", Digit[k + 1]>>],
     letters |-> entry.letters]

\* The arguments of run_mcq_inference.
RunModes ==
    {[question_type |-> QtDefault, whole_page |-> FALSE, whole_doc |-> FALSE,
      without_context |-> FALSE],
     [question_type |-> QtEdit, whole_page |-> TRUE, whole_doc |-> FALSE,
      without_context |-> FALSE]}

\* Every combination of arguments run_mcq_inference accepts.
AllRunModes ==
    [question_type : {QtDefault, QtEdit, QtPartPair}, whole_page : BOOLEAN,
     whole_doc : BOOLEAN, without_context : BOOLEAN]

\* lines 127-132: whole_page and whole_doc are forced off for part_pair
forced_mode(mode) ==
    IF mode.question_type = QtPartPair
    THEN [mode EXCEPT !.whole_page = FALSE, !.whole_doc = FALSE]
    ELSE mode

\* Mutant: the iterator yields every entry.
iter_annotations_all(file, question_type) == file

\* iter_annotations (base.py lines 89-99): in a part_pair run the entries
\* without a part_pair item are skipped.
RECURSIVE iter_annotations(_, _)
iter_annotations(file, question_type) ==
    IF file = <<>> THEN <<>>
    ELSE IF question_type = QtPartPair /\ Head(file).part_pair = "none"
    THEN iter_annotations(Tail(file), question_type)
    ELSE <<Head(file)>> \o iter_annotations(Tail(file), question_type)

\* getattr(annotation.mcq, question_type): the part_pair item of an entry
\* may have an empty question.
mcq_item_of(entry, question_type) ==
    IF question_type = QtPartPair /\ entry.part_pair = "blank"
    THEN [MCQItemOf(entry) EXCEPT !.question = <<>>]
    ELSE MCQItemOf(entry)

\* The correct letter the handler chosen by lines 143-172 puts into the key:
\* _handle_one_annotation_without_context when without_context, else
\* _handle_one_part_pair_annotation for part_pair, else
\* _handle_one_annotation.
handler_correct_letter(entry, mode) ==
    LET mcq_item == mcq_item_of(entry, mode.question_type) IN
    IF mode.without_context
    THEN prepare_answers(mcq_item, mode.question_type).correct_letter
    ELSE IF mode.question_type = QtPartPair
    THEN part_pair_answers(mcq_item).correct_letter
    ELSE prepare_answers(mcq_item, mode.question_type).correct_letter

\* Mutant: the part_pair handler appends a request for every entry.
handler_appends_always(entry, mode) == TRUE

\* Whether the handler appends a request: _handle_one_part_pair_annotation
\* returns early when build_part_pair_context gave no context items
\* (gemini_batch.py lines 478-481); the other two handlers always append.
handler_appends(entry, mode) ==
    \/ mode.without_context
    \/ mode.question_type # QtPartPair
    \/ part_pair_answers(mcq_item_of(entry, mode.question_type)).answer_options # <<>>

\* The request one handler call appends to self.batch_requests; it carries
\* the key and weighs entry.size.
build_request(entry, mode) ==
    [key |-> make_custom_id(entry.id, entry.idx, mode.question_type,
                            handler_correct_letter(entry, mode),
                            mode.whole_page, mode.whole_doc,
                            mode.without_context),
     size |-> entry.size]

\* The handler calls of the loop, one per entry the iterator yields.
RECURSIVE handle_annotations(_, _)
handle_annotations(entries, mode) ==
    IF entries = <<>> THEN <<>>
    ELSE (IF handler_appends(Head(entries), mode)
          THEN <<build_request(Head(entries), mode)>> ELSE <<>>)
         \o handle_annotations(Tail(entries), mode)

\* The "for key, idx, ann in iterator" loop of run_mcq_inference.
build_requests(file, mode) ==
    handle_annotations(iter_annotations(file, forced_mode(mode).question_type),
                       forced_mode(mode))

JOB_STATE_PENDING == "JOB_STATE_PENDING"
JOB_STATE_RUNNING == "JOB_STATE_RUNNING"
JOB_STATE_SUCCEEDED == "JOB_STATE_SUCCEEDED"
JOB_STATE_FAILED == "JOB_STATE_FAILED"
JOB_STATE_CANCELLED == "JOB_STATE_CANCELLED"
JOB_STATE_EXPIRED == "JOB_STATE_EXPIRED"

\* A job that batches.delete removed: every later call on its name raises.
JOB_DELETED == "deleted"

\* completed_states of wait_for_completion
completed_states == {JOB_STATE_SUCCEEDED, JOB_STATE_FAILED,
                     JOB_STATE_CANCELLED, JOB_STATE_EXPIRED}

NoCall == [op |-> "none", raised |-> "none", outcome |-> "none",
           returned |-> "none", log |-> <<>>, elapsed |-> 0, timeout |-> 0]

NoWait == [pc |-> "idle", elapsed |-> 0, timeout |-> 0, interval |-> 0]

NoMode == [question_type |-> <<>>, whole_page |-> FALSE, whole_doc |-> FALSE,
           without_context |-> FALSE]

NoRun == [count |-> 0, raised |-> "none", mode |-> NoMode, built |-> <<>>,
          batch_splits |-> <<>>]

NoResultsFile == [written |-> FALSE, name |-> <<>>, content |-> <<>>]

Init ==
    /\ phase = "orchestrator"
    /\ max_batch_size_mb \in 1..MaxOrchBatchBytes
    /\ annotation_file \in AnnotationFiles
    /\ batch_requests = <<>>
    /\ batch_jobs = <<>>
    /\ file_name = 0
    /\ batch_name = 0
    /\ responses = <<>>
    /\ remote_files = <<>>
    /\ remote_jobs = <<>>
    /\ results_file = NoResultsFile
    /\ last_run = NoRun
    /\ call = NoCall
    /\ wait = NoWait
    /\ SplitIdle
    /\ KeyIdle
    /\ PureIdle

(***************************************************************************)
(* run_mcq_inference (gemini_batch.py lines 119-211).                      *)
(*                                                                         *)
(* fail names the remote call that raises in this run: fail.chunk = 0 for  *)
(* none, else the chunk whose files.upload ("upload") or batches.create    *)
(* ("create") raises, or the entry (its place among the entries the        *)
(* iterator yields) whose context building raises ("context"): the call    *)
(* then leaves the annotation loop of lines 142-172 with the requests of   *)
(* the entries before, and never reaches line 194.  Nothing in             *)
(* run_mcq_inference or in _create_batch_from_requests catches either.     *)
(***************************************************************************)
SubmitFailures(n) ==
    {[chunk |-> 0, step |-> "none", entry |-> 0]} \cup
    [chunk : 1..n, step : {"upload", "create"}, entry : {0}] \cup
    [chunk : {0}, step : {"context"}, entry : 1..MaxEntries]

\* get_list_of_context (helpers.py lines 170-180): with whole_page, the page
\* of an image part is rendered by convert_from_path and saved outside any
\* try/except; whole_doc and the text parts are rendered inside one, and
\* without_context and part_pair do not render pages.
context_may_raise(entry, mode) ==
    /\ entry.image_part
    /\ mode.whole_page
    /\ ~mode.whole_doc
    /\ ~mode.without_context
    /\ mode.question_type # QtPartPair

\* Mutant: a handle is recorded for every chunk, whatever raised.
ChunksSubmittedAll(n, fail) == n

\* Number of chunks whose _create_batch_from_requests call returned.
ChunksSubmitted(n, fail) == IF fail.chunk = 0 THEN n ELSE fail.chunk - 1

\* Number of chunks whose upload succeeded.
ChunksUploaded(n, fail) ==
    IF fail.chunk = 0 THEN n
    ELSE IF fail.step = "create" THEN fail.chunk ELSE fail.chunk - 1

RunMcqInference(mode, fail) ==
    LET entries == iter_annotations(annotation_file,
                                    forced_mode(mode).question_type)
        context_raises == fail.step = "context"
        built == IF context_raises
                 THEN handle_annotations(SubSeq(entries, 1, fail.entry - 1),
                                         forced_mode(mode))
                 ELSE build_requests(annotation_file, mode)
        all_requests == batch_requests \o built
        batch_splits == IF context_raises THEN <<>>
                        ELSE _split_batch_requests(all_requests,
                                                   max_batch_size_mb)
        n == Len(batch_splits)
        done == ChunksSubmitted(n, fail)
        up == ChunksUploaded(n, fail)
        new_jobs == [i \in 1..done |->
                        [file_name |-> Len(remote_files) + i,
                         batch_name |-> Len(remote_jobs) + i]]
        raised == IF context_raises THEN "RenderError"
                  ELSE IF fail.chunk = 0 THEN "none" ELSE "RemoteError"
    IN  /\ wait.pc = "idle"
        /\ last_run.count < MaxRuns
        /\ Len(remote_jobs) + n <= MaxJobs
        /\ fail.chunk <= n
        /\ context_raises =>
              /\ fail.entry <= Len(entries)
              /\ context_may_raise(entries[fail.entry], forced_mode(mode))
        /\ responses' = <<>>
        /\ batch_requests' = all_requests
        /\ remote_files' = remote_files \o [i \in 1..up |-> batch_splits[i]]
        /\ remote_jobs' = remote_jobs \o
               [i \in 1..done |-> [src |-> Len(remote_files) + i,
                                   state |-> JOB_STATE_PENDING,
                                   dest_file |-> FALSE,
                                   dest |-> <<>>]]
        /\ batch_jobs' = IF context_raises THEN batch_jobs ELSE new_jobs
        /\ IF fail.chunk = 0 /\ new_jobs # <<>>
           THEN /\ batch_name' = new_jobs[1].batch_name
                /\ file_name' = new_jobs[1].file_name
           ELSE UNCHANGED <<batch_name, file_name>>
        /\ last_run' = [count |-> last_run.count + 1,
                        raised |-> raised,
                        mode |-> mode,
                        built |-> built,
                        batch_splits |-> batch_splits]
        /\ call' = [NoCall EXCEPT
                        !.op = "run_mcq_inference",
                        !.raised = raised,
                        !.log = [i \in 1..n |->
                                    IF i <= done THEN "submitted"
                                    ELSE IF i = fail.chunk THEN "error"
                                    ELSE "not_attempted"]]
        /\ UNCHANGED <<phase, max_batch_size_mb, annotation_file,
                       results_file, wait, splitVars, keyVars, pureVars>>

(***************************************************************************)
(* The remote batch service: a job runs, then succeeds with one output     *)
(* line per request of its input file, or fails, or expires.               *)
(***************************************************************************)
\* A result line whose "response" holds one candidate with one text part.
TextResponse(t) ==
    [candidates |-> <<[content |-> [parts |-> <<[text |-> t]>>]]>>]

\* A result line without a usable response (a per-request error).
NoResponse == [error |-> "request failed"]

\* The shapes of result lines the service hands out; the lines of one
\* output file take them in turn, starting at the job's number.
ResponseShapes == <<NoResponse, TextResponse(<<"b", ")">>),
                    TextResponse(<<"A">>)>>

ResponseOf(k, first) == ResponseShapes[((k + first) % Len(ResponseShapes)) + 1]

\* A job the provider object still holds a handle of.
Referenced(j) ==
    \/ \E i \in 1..Len(batch_jobs) : batch_jobs[i].batch_name = j
    \/ batch_name = j

\* The sets of handles whose status query may raise in one sweep.
SweepErrors(n) == {{}} \cup {{i} : i \in 1..n}

\* The handles of jobs on which a call of the remote service raises: those
\* of errs, and those whose job was deleted.
RaisingHandles(jobs, errs) ==
    errs \cup {i \in 1..Len(jobs) :
                  remote_jobs[jobs[i].batch_name].state = JOB_DELETED}

RemoteRun(j) ==
    /\ Referenced(j)
    /\ remote_jobs[j].state = JOB_STATE_PENDING
    /\ remote_jobs' = [remote_jobs EXCEPT ![j].state = JOB_STATE_RUNNING]
    /\ UNCHANGED <<phase, max_batch_size_mb, annotation_file, providerVars,
                   remote_files, results_file, last_run, call, wait,
                   splitVars, keyVars, pureVars>>

RemoteSucceed(j) ==
    LET input == remote_files[remote_jobs[j].src]
        shapes == [k \in 1..Len(input) |-> ResponseOf(k, j)]
    IN
    /\ Referenced(j)
    /\ remote_jobs[j].state = JOB_STATE_RUNNING
    /\ remote_jobs' = [remote_jobs EXCEPT
            ![j].state = JOB_STATE_SUCCEEDED,
            ![j].dest_file = TRUE,
            ![j].dest = [k \in 1..Len(input) |->
                            IF shapes[k] = NoResponse
                            THEN [key |-> input[k].key]
                            ELSE [key |-> input[k].key,
                                  response |-> shapes[k]]]]
    /\ UNCHANGED <<phase, max_batch_size_mb, annotation_file, providerVars,
                   remote_files, results_file, last_run, call, wait,
                   splitVars, keyVars, pureVars>>

\* A job that succeeds with an output file holding no line.
RemoteSucceedEmpty(j) ==
    /\ Referenced(j)
    /\ remote_jobs[j].state = JOB_STATE_RUNNING
    /\ remote_jobs' = [remote_jobs EXCEPT ![j].state = JOB_STATE_SUCCEEDED,
                                          ![j].dest_file = TRUE,
                                          ![j].dest = <<>>]
    /\ UNCHANGED <<phase, max_batch_size_mb, annotation_file, providerVars,
                   remote_files, results_file, last_run, call, wait,
                   splitVars, keyVars, pureVars>>

\* A job that succeeds without naming an output file (batch_response.dest
\* is None or has no file_name).
RemoteSucceedNoFile(j) ==
    /\ Referenced(j)
    /\ remote_jobs[j].state = JOB_STATE_RUNNING
    /\ remote_jobs' = [remote_jobs EXCEPT ![j].state = JOB_STATE_SUCCEEDED]
    /\ UNCHANGED <<phase, max_batch_size_mb, annotation_file, providerVars,
                   remote_files, results_file, last_run, call, wait,
                   splitVars, keyVars, pureVars>>

RemoteEnd(j, state) ==
    /\ Referenced(j)
    /\ remote_jobs[j].state \in {JOB_STATE_PENDING, JOB_STATE_RUNNING}
    /\ state \in {JOB_STATE_FAILED, JOB_STATE_EXPIRED}
    /\ remote_jobs' = [remote_jobs EXCEPT ![j].state = state]
    /\ UNCHANGED <<phase, max_batch_size_mb, annotation_file, providerVars,
                   remote_files, results_file, last_run, call, wait,
                   splitVars, keyVars, pureVars>>

(***************************************************************************)
(* get_batch_results (gemini_batch.py lines 213-325).                      *)
(***************************************************************************)
\* "Use batch_jobs if available, otherwise fall back to single batch"
\* (lines 217-226, 329-336); <<>> when there is neither.
jobs_to_process ==
    IF batch_jobs # <<>> THEN batch_jobs
    ELSE IF file_name # 0 /\ batch_name # 0
    THEN <<[file_name |-> file_name, batch_name |-> batch_name]>>
    ELSE <<>>

\* Mutant: results are read from any job that has ended.
job_ready_when_ended(state) == state \in completed_states

\* line 238: the job's results are read only in JOB_STATE_SUCCEEDED
job_ready(state) == state = JOB_STATE_SUCCEEDED

FetchFailures(n) ==
    {[job |-> 0, step |-> "none"]} \cup [job : 1..n, step : {"get", "download"}]

\* One iteration of "for i, batch_job in enumerate(batch_jobs_to_process)"
\* (lines 231-257): batches.get, the state check, the test for an output
\* file (line 244, else the ValueError of lines 251-254), files.download.
fetch_one(handle, i, fail) ==
    LET job == remote_jobs[handle.batch_name] IN
    IF (fail.job = i /\ fail.step = "get") \/ job.state = JOB_DELETED
    THEN [raised |-> "RemoteError", lines |-> <<>>,
          entry |-> [batch_name |-> handle.batch_name, status |-> "unknown",
                     downloaded |-> FALSE, error |-> "get"]]
    ELSE IF ~job_ready(job.state)
    THEN [raised |-> "ValueError", lines |-> <<>>,
          entry |-> [batch_name |-> handle.batch_name, status |-> job.state,
                     downloaded |-> FALSE, error |-> "not ready yet"]]
    ELSE IF ~job.dest_file
    THEN [raised |-> "ValueError", lines |-> <<>>,
          entry |-> [batch_name |-> handle.batch_name, status |-> job.state,
                     downloaded |-> FALSE, error |-> "No output file found"]]
    ELSE IF fail.job = i /\ fail.step = "download"
    THEN [raised |-> "RemoteError", lines |-> <<>>,
          entry |-> [batch_name |-> handle.batch_name, status |-> job.state,
                     downloaded |-> FALSE, error |-> "download"]]
    ELSE [raised |-> "none", lines |-> job.dest,
          entry |-> [batch_name |-> handle.batch_name, status |-> job.state,
                     downloaded |-> TRUE, error |-> "none"]]

RECURSIVE fetch_jobs(_, _, _, _)
fetch_jobs(jobs, i, fail, acc) ==
    IF i > Len(jobs) THEN acc
    ELSE LET r == fetch_one(jobs[i], i, fail) IN
         IF r.raised # "none"
         THEN [raised |-> r.raised, log |-> Append(acc.log, r.entry),
               all_results |-> acc.all_results]
         ELSE fetch_jobs(jobs, i + 1, fail,
                         [raised |-> "none", log |-> Append(acc.log, r.entry),
                          all_results |-> acc.all_results \o r.lines])

StripChars == {"'", ".", "\"", " ", ")"}

\* lines 295-304: the prediction of one result line, None when the line has
\* no response, no candidate, no parts or no text in the first part.
extract_prediction(result) ==
    IF /\ "response" \in DOMAIN result
       /\ "candidates" \in DOMAIN result.response
       /\ result.response.candidates # <<>>
       /\ "content" \in DOMAIN result.response.candidates[1]
       /\ "parts" \in DOMAIN result.response.candidates[1].content
       /\ result.response.candidates[1].content.parts # <<>>
       /\ "text" \in DOMAIN result.response.candidates[1].content.parts[1]
    THEN str_upper(str_strip(
             result.response.candidates[1].content.parts[1].text, StripChars))
    ELSE PyNone

\* Mutant: the prediction counts as correct when it starts with the letter.
scored_result_first_letter(key, prediction) ==
    [id |-> key.id, idx |-> key.idx, question_type |-> key.question_type,
     correct_letter |-> key.correct_letter, prediction |-> prediction,
     is_correct |-> (/\ prediction # PyNone
                     /\ prediction # <<>>
                     /\ <<Head(prediction)>> = key.correct_letter)]

\* lines 306-316: the record appended to self.responses for one line
scored_result(key, prediction) ==
    [id |-> key.id, idx |-> key.idx, question_type |-> key.question_type,
     correct_letter |-> key.correct_letter, prediction |-> prediction,
     is_correct |-> (prediction = key.correct_letter)]

\* line 307: self.responses.append(...)
append_response(rs, rec) == Append(rs, rec)

\* "for result in all_results" (lines 270-316); stops where unpacking the
\* key raises.  last is the key unpacked from the last line handled.
RECURSIVE reconcile(_, _)
reconcile(lines, acc) ==
    IF lines = <<>> THEN acc
    ELSE LET key == decode_key_gemini(Head(lines).key) IN
         IF key.error # "none"
         THEN [acc EXCEPT !.raised = key.error]
         ELSE reconcile(Tail(lines),
                  [raised |-> "none",
                   responses |-> append_response(acc.responses,
                       scored_result(key, extract_prediction(Head(lines)))),
                   last |-> key])

\* write_results (base.py lines 210-225): the file is named after the
\* question type and the three flags, and holds self.responses.
write_results(question_type, whole_page, whole_doc, without_context, content) ==
    [written |-> TRUE,
     name |-> [question_type |-> str_replace(question_type, "_", "-"),
               fullpage |-> whole_page, wholedoc |-> whole_doc,
               without_context |-> without_context],
     content |-> content]

\* Mutant: the records of the earlier call are kept.
keep_responses(rs) == rs

\* line 214: self.responses = []
reset_responses(rs) == <<>>

\* call.outcome tells whether the call before was get_batch_results too.
GetBatchResults(fail) ==
    LET jobs == jobs_to_process
        fetched == fetch_jobs(jobs, 1, fail,
                       [raised |-> "none", log |-> <<>>, all_results |-> <<>>])
        rec == reconcile(fetched.all_results,
                   [raised |-> "none", responses |-> reset_responses(responses),
                    last |-> KeyError])
        raised == IF jobs = <<>> THEN "ValueError"
                  ELSE IF fetched.raised # "none" THEN fetched.raised
                  ELSE IF rec.raised # "none" THEN rec.raised
                  ELSE IF fetched.all_results = <<>> THEN "UnboundLocalError"
                  ELSE "none"
    IN  /\ wait.pc = "idle"
        /\ fail.job <= Len(jobs)
        /\ responses' = IF jobs = <<>> \/ fetched.raised # "none"
                        THEN reset_responses(responses)
                        ELSE rec.responses
        /\ results_file' =
              IF raised = "none"
              THEN write_results(rec.last.question_type,
                                 rec.last.whole_page = StrTrue,
                                 rec.last.whole_doc = StrTrue,
                                 rec.last.without_context = StrTrue,
                                 rec.responses)
              ELSE results_file
        /\ call' = [NoCall EXCEPT !.op = "get_batch_results",
                                  !.raised = raised,
                                  !.outcome = IF call.op = "get_batch_results"
                                              THEN "repeated" ELSE "first",
                                  !.log = fetched.log]
        /\ UNCHANGED <<phase, max_batch_size_mb, annotation_file,
                       batch_requests, batch_jobs, file_name, batch_name,
                       remoteVars, last_run, wait, splitVars, keyVars, pureVars>>

(***************************************************************************)
(* get_batch_status (lines 327-370) and wait_for_completion (513-562).     *)
(*                                                                         *)
(* errs is the set of handles (positions) whose batches.get raises during  *)
(* this sweep; the except clause turns each into the status "error".       *)
(***************************************************************************)
batch_statuses(jobs, errs) ==
    [i \in 1..Len(jobs) |->
        [batch_num |-> i, batch_name |-> jobs[i].batch_name,
         file_name |-> jobs[i].file_name,
         status |-> IF i \in RaisingHandles(jobs, errs) THEN "error"
                    ELSE remote_jobs[jobs[i].batch_name].state]]

\* Mutant: the handles of the jobs found ended are dropped.
polled_handles_drop_ended(handles, statuses) ==
    SelectSeq(handles,
              LAMBDA h : \A i \in 1..Len(statuses) :
                  statuses[i].batch_name = h.batch_name =>
                      statuses[i].status \notin completed_states)

\* self.batch_jobs after the sweep: get_batch_status assigns no attribute
\* of self, the handles stay as they were.
polled_handles(handles, statuses) == handles

GetBatchStatus(errs) ==
    LET jobs == jobs_to_process IN
    /\ wait.pc = "idle"
    /\ errs \subseteq 1..Len(jobs)
    /\ batch_jobs' = polled_handles(batch_jobs, batch_statuses(jobs, errs))
    /\ UNCHANGED <<batch_requests, file_name, batch_name, responses>>
    /\ call' = [NoCall EXCEPT
                    !.op = "get_batch_status",
                    !.returned = IF jobs = <<>> THEN "error" ELSE "batch_jobs",
                    !.log = batch_statuses(jobs, errs)]
    /\ UNCHANGED <<phase, max_batch_size_mb, annotation_file,
                   remoteVars, results_file, last_run, wait, splitVars,
                   keyVars, pureVars>>

\* Mutant: the sweep counts as complete as soon as one job has ended.
any_completed(status_info) ==
    \E i \in 1..Len(status_info) : status_info[i].status \in completed_states

\* Mutant: a handle whose status query raised counts as ended.
all_completed_or_error(status_info) ==
    \A i \in 1..Len(status_info) :
        status_info[i].status \in completed_states \cup {"error"}

\* lines 533-539: all_completed after the loop over status_info["batch_jobs"]
all_completed(status_info) ==
    \A i \in 1..Len(status_info) : status_info[i].status \in completed_states

\* The call of wait_for_completion up to the loop (lines 517-530).
StartWait(timeout_seconds, poll_interval_seconds) ==
    /\ wait.pc = "idle"
    /\ IF batch_jobs = <<>>
       THEN /\ call' = [NoCall EXCEPT !.op = "wait_for_completion",
                                      !.raised = "ValueError"]
            /\ UNCHANGED wait
       ELSE /\ wait' = [pc |-> "polling", elapsed |-> 0,
                        timeout |-> timeout_seconds,
                        interval |-> poll_interval_seconds]
            /\ call' = [NoCall EXCEPT !.op = "wait_for_completion",
                                      !.outcome = "started",
                                      !.timeout = timeout_seconds]
    /\ UNCHANGED <<phase, max_batch_size_mb, annotation_file, providerVars,
                   remoteVars, results_file, last_run, splitVars, keyVars, pureVars>>

\* One pass of "while True" (lines 532-562): a status sweep that takes
\* delay, the completion test, the timeout test, then time.sleep.  The
\* method has no return statement: it returns None on either break.
WaitIteration(delay, errs) ==
    LET status_info == batch_statuses(batch_jobs, errs)
        elapsed_time == wait.elapsed + delay
        outcome == IF all_completed(status_info) THEN "completed"
                   ELSE IF elapsed_time > wait.timeout THEN "timeout"
                   ELSE "sleeping"
    IN  /\ wait.pc = "polling"
        /\ errs \subseteq 1..Len(batch_jobs)
        /\ wait' = IF outcome = "sleeping"
                   THEN [wait EXCEPT !.elapsed = elapsed_time + wait.interval]
                   ELSE NoWait
        /\ call' = [op |-> "wait_for_completion", raised |-> "none",
                    outcome |-> outcome,
                    returned |-> IF outcome = "sleeping" THEN "none"
                                 ELSE "None",
                    log |-> status_info, elapsed |-> elapsed_time,
                    timeout |-> wait.timeout]
        /\ UNCHANGED <<phase, max_batch_size_mb, annotation_file, providerVars,
                       remoteVars, results_file, last_run, splitVars, keyVars, pureVars>>

(***************************************************************************)
(* cancel_batch_jobs (lines 564-575) and delete_batch_jobs (577-588).      *)
(***************************************************************************)
\* Mutant: the sweep ends at the first handle whose call raises.
sweep_outcomes_abort(jobs, raising, done) ==
    [i \in 1..Len(jobs) |->
        [batch_name |-> jobs[i].batch_name,
         outcome |-> IF \E k \in raising : k < i THEN "not_attempted"
                     ELSE IF i \in raising THEN "failed" ELSE done]]

\* "for i, batch_job in enumerate(self.batch_jobs)" with its try/except:
\* what happened to each handle.
sweep_outcomes(jobs, raising, done) ==
    [i \in 1..Len(jobs) |->
        [batch_name |-> jobs[i].batch_name,
         outcome |-> IF i \in raising THEN "failed" ELSE done]]

\* The names of the jobs the sweep's call went through for.
SweptJobs(log, done) ==
    {log[i].batch_name : i \in {k \in 1..Len(log) : log[k].outcome = done}}

\* batches.cancel on the remote service, after the state machine of the
\* specification (a terminal state has no further transition): a job that
\* has not ended becomes cancelled, a job that has ended stays as it is.
cancel_job(job) ==
    IF job.state \in {JOB_STATE_PENDING, JOB_STATE_RUNNING}
    THEN [job EXCEPT !.state = JOB_STATE_CANCELLED]
    ELSE job

\* Mutant: the cancel sweep calls batches.delete, as delete_batch_jobs does.
cancel_call_deletes(job) == [job EXCEPT !.state = JOB_DELETED]

\* The call cancel_batch_jobs makes for one handle (line 572):
\* client.batches.cancel(name=batch_name), whatever the state of the job.
cancel_call(job) == cancel_job(job)

CancelBatchJobs(errs) ==
    LET log == sweep_outcomes(batch_jobs, RaisingHandles(batch_jobs, errs),
                              "cancelled")
    IN  /\ wait.pc = "idle"
        /\ errs \subseteq 1..Len(batch_jobs)
        /\ remote_jobs' =
              [j \in 1..Len(remote_jobs) |->
                  IF j \in SweptJobs(log, "cancelled")
                  THEN cancel_call(remote_jobs[j])
                  ELSE remote_jobs[j]]
        /\ call' = [NoCall EXCEPT !.op = "cancel_batch_jobs", !.log = log]
        /\ UNCHANGED <<phase, max_batch_size_mb, annotation_file, providerVars,
                       remote_files, results_file, last_run, wait, splitVars,
                       keyVars, pureVars>>

DeleteBatchJobs(errs) ==
    LET log == sweep_outcomes(batch_jobs, RaisingHandles(batch_jobs, errs),
                              "deleted")
    IN  /\ wait.pc = "idle"
        /\ errs \subseteq 1..Len(batch_jobs)
        /\ remote_jobs' =
              [j \in 1..Len(remote_jobs) |->
                  IF j \in SweptJobs(log, "deleted")
                  THEN [remote_jobs[j] EXCEPT !.state = JOB_DELETED]
                  ELSE remote_jobs[j]]
        /\ call' = [NoCall EXCEPT !.op = "delete_batch_jobs", !.log = log]
        /\ UNCHANGED <<phase, max_batch_size_mb, annotation_file, providerVars,
                       remote_files, results_file, last_run, wait, splitVars,
                       keyVars, pureVars>>

Next ==
    \/ \E mode \in RunModes, fail \in SubmitFailures(MaxJobs) :
          RunMcqInference(mode, fail)
    \/ \E j \in 1..Len(remote_jobs) : RemoteRun(j)
    \/ \E j \in 1..Len(remote_jobs) : RemoteSucceed(j)
    \/ \E j \in 1..Len(remote_jobs) :
          \E state \in {JOB_STATE_FAILED, JOB_STATE_EXPIRED} :
              RemoteEnd(j, state)
    \/ \E fail \in FetchFailures(MaxJobs) : GetBatchResults(fail)
    \/ \E errs \in SweepErrors(MaxJobs) : GetBatchStatus(errs)
    \/ \E t \in 1..MaxTimeout, p \in 1..MaxInterval : StartWait(t, p)
    \/ \E d \in 0..MaxPollDelay, errs \in SweepErrors(MaxJobs) :
          WaitIteration(d, errs)
    \/ \E errs \in SweepErrors(MaxJobs) : CancelBatchJobs(errs)
    \/ \E errs \in SweepErrors(MaxJobs) : DeleteBatchJobs(errs)

Spec == Init /\ [][Next]_vars

(***************************************************************************)
(* Specification SpecRun: run_mcq_inference called, up to MaxRuns times,   *)
(* with every combination of its arguments, on annotation files whose      *)
(* entries may lack the part_pair item.                                    *)
(***************************************************************************)
PartPairKinds == {"item", "blank", "none"}

\* One paper id is enough where the keys are not decoded.
RunAnnIds == {<<"p", "1">>}

\* The entries that lack the part_pair item are the ones with text parts only.
RunAnnotationFiles ==
    UNION {{[k \in 1..Len(sz) |->
                  AnnEntry(id, k, sz[k], pp[k], pp[k] # "none")] :
               id \in RunAnnIds, pp \in [1..Len(sz) -> PartPairKinds]} :
           sz \in SeqsUpTo(1..MaxEntrySize, MaxEntries)}

InitRun ==
    /\ phase = "orchestrator"
    /\ max_batch_size_mb \in 1..MaxOrchBatchBytes
    /\ annotation_file \in RunAnnotationFiles
    /\ batch_requests = <<>>
    /\ batch_jobs = <<>>
    /\ file_name = 0
    /\ batch_name = 0
    /\ responses = <<>>
    /\ remote_files = <<>>
    /\ remote_jobs = <<>>
    /\ results_file = NoResultsFile
    /\ last_run = NoRun
    /\ call = NoCall
    /\ wait = NoWait
    /\ SplitIdle
    /\ KeyIdle
    /\ PureIdle

NextRun ==
    \E mode \in AllRunModes, fail \in SubmitFailures(MaxJobs) :
        RunMcqInference(mode, fail)

SpecRun == InitRun /\ [][NextRun]_vars

\* C20: a run with without_context = True and question_type = part_pair
\* fails with the unsupported-mode error: no request is built, nothing is
\* submitted.
C20_WithoutContextPartPairFails ==
    (/\ call.op = "run_mcq_inference"
     /\ last_run.mode.without_context
     /\ last_run.mode.question_type = QtPartPair
     /\ \E k \in 1..Len(annotation_file) :
            annotation_file[k].part_pair # "none") =>
        /\ call.raised = "ValueError"
        /\ last_run.built = <<>>
        /\ call.log = <<>>


(***************************************************************************)
(* Claims about the job lifecycle and the reconciliation (checked under    *)
(* Spec).  call describes the provider method that returned (or raised)    *)
(* last; for get_batch_results its log has one entry per job looked at.    *)
(***************************************************************************)
NonTerminal(status) == status \notin completed_states

\* C3: results of a job are downloaded only when the state polled for it at
\* that moment is JOB_STATE_SUCCEEDED; get_batch_results on a job in any
\* other state raises the not-ready error and downloads nothing for it.
C3_FetchOnlySucceeded ==
    call.op = "get_batch_results" =>
        \A k \in 1..Len(call.log) :
            LET e == call.log[k] IN
            /\ e.downloaded =>
                  /\ e.status = JOB_STATE_SUCCEEDED
                  /\ remote_jobs[e.batch_name].state = JOB_STATE_SUCCEEDED
            /\ e.status \in {JOB_STATE_PENDING, JOB_STATE_RUNNING,
                             JOB_STATE_FAILED, JOB_STATE_CANCELLED,
                             JOB_STATE_EXPIRED} =>
                  /\ ~e.downloaded
                  /\ call.raised = "ValueError"
                  /\ e.error = "not ready yet"
                  /\ k = Len(call.log)
                  /\ responses = <<>>

C3_Witness ==
    /\ call.op = "get_batch_results"
    /\ Len(call.log) = 2
    /\ call.log[1].downloaded
    /\ call.log[2].status = JOB_STATE_FAILED
    /\ ~call.log[2].downloaded
    /\ call.raised = "ValueError"

\* C4: an error of the remote service during submit, poll or fetch of one
\* handle does not abort its siblings: the remaining chunks are still
\* submitted, the remaining jobs still polled, the remaining succeeded jobs
\* still fetched.
C4_SiblingsSurviveFailure ==
    /\ call.op = "run_mcq_inference" =>
          \A i \in 1..Len(call.log) : call.log[i] # "not_attempted"
    /\ call.op = "get_batch_status" =>
          Len(call.log) = Len(jobs_to_process)
    /\ (call.op = "get_batch_results" /\ call.raised = "RemoteError") =>
          Len(call.log) = Len(jobs_to_process)

\* C5: wait_for_completion with a handle that stays non-terminal returns
\* after the deadline, within about timeout + interval, without raising,
\* and returns that handle's last known non-terminal state.
C5_WaitReturnsLastStatus ==
    (call.op = "wait_for_completion" /\ call.outcome = "timeout") =>
        /\ call.raised = "none"
        /\ call.elapsed > call.timeout
        /\ call.elapsed <= call.timeout + MaxInterval + MaxPollDelay
        /\ \E i \in 1..Len(call.log) : NonTerminal(call.log[i].status)
        /\ call.returned = "batch_jobs"

\* C6: wait_for_completion returns before the deadline only if one and the
\* same status sweep saw every handle in a terminal state; while some handle
\* is non-terminal and the deadline has not passed it keeps polling every
\* handle.
C6_WaitEndsEarlyOnlyWhenAllTerminal ==
    (call.op = "wait_for_completion"
        /\ call.outcome \in {"completed", "timeout", "sleeping"}) =>
        /\ Len(call.log) = Len(batch_jobs)
        /\ call.outcome = "completed" =>
              \A i \in 1..Len(call.log) : ~NonTerminal(call.log[i].status)
        /\ (call.outcome # "sleeping" /\ call.elapsed <= call.timeout) =>
              call.outcome = "completed"
        /\ ((\E i \in 1..Len(call.log) : NonTerminal(call.log[i].status))
                /\ call.elapsed <= call.timeout) =>
              /\ call.outcome = "sleeping"
              /\ wait.pc = "polling"

C6_Witness ==
    /\ call.op = "wait_for_completion"
    /\ call.outcome = "completed"
    /\ Len(call.log) = 2
    /\ call.elapsed > 0
    /\ call.elapsed <= call.timeout
    /\ call.log[1].status = JOB_STATE_SUCCEEDED
    /\ call.log[2].status = JOB_STATE_EXPIRED

\* C7: for a run whose N requests were split into chunks, once every job has
\* succeeded with one output line per request, get_batch_results yields
\* exactly N records, no two with the same (id, idx), each carrying the
\* correct letter of its originating request.
C7_OneRecordPerRunRequest ==
    (call.op = "get_batch_results" /\ call.raised = "none"
        /\ last_run.count > 0 /\ last_run.raised = "none") =>
        /\ Len(responses) = Len(last_run.built)
        /\ \A k, m \in 1..Len(responses) :
              (responses[k].id = responses[m].id
                  /\ responses[k].idx = responses[m].idx) => k = m
        /\ \A k \in 1..Len(responses) :
              \E e \in 1..Len(annotation_file) :
                  /\ annotation_file[e].id = responses[k].id
                  /\ str_int(annotation_file[e].idx) = responses[k].idx
                  /\ prepare_answers(MCQItemOf(annotation_file[e]),
                                      QtDefault).correct_letter =
                         responses[k].correct_letter

\* The raw result lines of the jobs get_batch_results reads, in job order.
RawLines ==
    Flatten([i \in 1..Len(jobs_to_process) |->
                remote_jobs[jobs_to_process[i].batch_name].dest])

\* C8: reconciliation emits exactly one record per raw result line of every
\* job and drops none: whenever get_batch_results has read the lines of
\* every job, the number of records equals the number of raw lines, and a
\* line without usable text output has a record with prediction None.
C8_OneRecordPerRawLine ==
    (/\ call.op = "get_batch_results"
     /\ jobs_to_process # <<>>
     /\ Len(call.log) = Len(jobs_to_process)
     /\ \A i \in 1..Len(call.log) : call.log[i].downloaded) =>
        /\ Len(responses) = Len(RawLines)
        /\ \A k \in 1..Len(RawLines) :
              "response" \notin DOMAIN RawLines[k] =>
                  /\ k <= Len(responses)
                  /\ responses[k].prediction = PyNone

(***************************************************************************)
(* Specification SpecScore: one raw result line, of either provider, is     *)
(* turned into a record as the loop of get_batch_results does it            *)
(* (gemini_batch.py lines 270-316, openai_batch.py lines 253-291).          *)
(***************************************************************************)
MaxTextLen == 4         \* longest text of a model answer

ScoreChars == {"A", "a", "b", ")", " ", "'", ".", "\n"}

ScoreTexts == SeqsUpTo(ScoreChars, MaxTextLen)

\* The key of the line: entry (p1, 0) of a default run.
ScoreKey(letter) ==
    make_custom_id(<<"p", "1">>, 0, QtDefault, letter, FALSE, FALSE, FALSE)

\* A line of the OpenAI output file whose response holds a reasoning item
\* and a message item with one output_text part.
OpenAITextResponse(t) ==
    [body |-> [output |-> <<[type |-> "reasoning"],
                            [type |-> "message",
                             content |-> <<[type |-> "output_text",
                                            text |-> t]>>]>>]]

\* Responses without any text: no message item, a message without content,
\* a refusal part only.
OpenAIEmptyResponses ==
    {[body |-> [output |-> <<>>]],
     [body |-> [output |-> <<[type |-> "message", content |-> <<>>]>>]],
     [body |-> [output |-> <<[type |-> "message",
                              content |-> <<[type |-> "refusal"]>>]>>]]}

GeminiEmptyResponses ==
    {[candidates |-> <<>>],
     [candidates |-> <<[content |-> [parts |-> <<>>]]>>],
     [candidates |-> <<[finishReason |-> "SAFETY"]>>]}

ScoreLines(provider) ==
    IF provider = "gemini"
    THEN {[key |-> ScoreKey(l), response |-> TextResponse(t)] :
              l \in KeyLetters, t \in ScoreTexts}
         \cup {[key |-> ScoreKey(l), response |-> r] :
              l \in KeyLetters, r \in GeminiEmptyResponses}
         \cup {[key |-> ScoreKey(l)] : l \in KeyLetters}
    ELSE {[custom_id |-> ScoreKey(l), response |-> OpenAITextResponse(t)] :
              l \in KeyLetters, t \in ScoreTexts}
         \cup {[custom_id |-> ScoreKey(l), response |-> r] :
              l \in KeyLetters, r \in OpenAIEmptyResponses}
         \cup {[custom_id |-> ScoreKey(l)] : l \in KeyLetters}

\* openai lines 272-277: "for c in content": the first output_text part
\* gives the prediction, c.get("text", "") stripped and upper-cased.
RECURSIVE first_output_text(_)
first_output_text(content) ==
    IF content = <<>> THEN PyNone
    ELSE IF Head(content).type = "output_text"
    THEN str_upper(str_strip(IF "text" \in DOMAIN Head(content)
                             THEN Head(content).text ELSE <<>>, StripChars))
    ELSE first_output_text(Tail(content))

\* openai lines 270-280: "for item in output": the first message item that
\* has an output_text part gives the prediction, else None.
RECURSIVE scan_output(_)
scan_output(output) ==
    IF output = <<>> THEN PyNone
    ELSE LET item == Head(output)
             p == IF item.type = "message"
                  THEN first_output_text(IF "content" \in DOMAIN item
                                         THEN item.content ELSE <<>>)
                  ELSE PyNone
         IN IF p # PyNone THEN p ELSE scan_output(Tail(output))

\* openai line 270: result.get("response", {}).get("body", {}).get("output", [])
extract_prediction_openai(result) ==
    scan_output(IF /\ "response" \in DOMAIN result
                   /\ "body" \in DOMAIN result.response
                   /\ "output" \in DOMAIN result.response.body
                THEN result.response.body.output ELSE <<>>)

\* One pass of "for result in all_results" of the provider.
score_line(provider, line) ==
    LET key == IF provider = "gemini" THEN decode_key_gemini(line.key)
               ELSE decode_key_openai(line.custom_id)
        prediction == IF provider = "gemini" THEN extract_prediction(line)
                      ELSE extract_prediction_openai(line)
    IN IF key.error # "none"
       THEN [raised |-> key.error, record |-> <<>>]
       ELSE [raised |-> "none", record |-> scored_result(key, prediction)]

InitScore ==
    /\ phase = "input"
    /\ key_provider \in {"gemini", "openai"}
    /\ result_line \in ScoreLines(key_provider)
    /\ scored = <<>>
    /\ max_batch_size_mb = 0
    /\ key_fields = <<>>
    /\ key_format = "none"
    /\ custom_id = <<>>
    /\ decoded = <<>>
    /\ results1 = <<>>
    /\ results2 = <<>>
    /\ merged = <<>>
    /\ mcq = <<>>
    /\ prepared = <<>>
    /\ document = <<>>
    /\ images = <<>>
    /\ SplitIdle
    /\ OrchIdle

ScoreLine ==
    /\ phase = "input"
    /\ phase' = "scored"
    /\ scored' = score_line(key_provider, result_line)
    /\ UNCHANGED <<result_line, max_batch_size_mb, splitVars, keyVars,
                   orchVars, results1, results2, merged, mcq, prepared,
                   document, images>>

NextScore == ScoreLine

SpecScore == InitScore /\ [][NextScore]_vars

(***************************************************************************)
(* Claims about the scoring of one line (checked under SpecScore).         *)
(***************************************************************************)
\* The key string of the line and the text of its answer, if it has one.
LineKey == IF key_provider = "gemini" THEN result_line.key
           ELSE result_line.custom_id

LineHasText ==
    /\ "response" \in DOMAIN result_line
    /\ result_line.response \notin GeminiEmptyResponses
    /\ result_line.response \notin OpenAIEmptyResponses

LineText ==
    IF key_provider = "gemini"
    THEN result_line.response.candidates[1].content.parts[1].text
    ELSE result_line.response.body.output[2].content[1].text

\* C11: is_correct is true iff the record's normalized prediction equals
\* exactly the correct letter decoded from the same line's key; a missing,
\* empty or multi-character prediction gives is_correct = false, and no
\* error is raised.
C11_CorrectIffPredictionEqualsLetter ==
    phase = "scored" =>
        /\ scored.raised = "none"
        /\ scored.record.correct_letter = str_split(LineKey, "_")[4]
        /\ scored.record.is_correct <=>
              scored.record.prediction = str_split(LineKey, "_")[4]
        /\ (\/ scored.record.prediction = PyNone
            \/ Len(scored.record.prediction) # 1) =>
              ~scored.record.is_correct
        /\ ~LineHasText => scored.record.prediction = PyNone

C11_Witness ==
    /\ phase = "scored"
    /\ LineHasText
    /\ Len(scored.record.prediction) = 2
    /\ <<Head(scored.record.prediction)>> = scored.record.correct_letter
    /\ ~scored.record.is_correct

\* The characters the specification has trimmed from both ends of the text:
\* the set {'.", )} and whitespace of any kind.
Whitespace == {" ", "\n", "\t", "\r"}
SpecTrimChars == {"'", ".", "\"", ",", " ", ")"} \cup Whitespace

\* C12: the prediction is the text with the characters {'.", )} and any
\* surrounding whitespace trimmed from both ends, then upper-cased.
C12_NormalizeTrimsAndUppercases ==
    (phase = "scored" /\ LineHasText) =>
        scored.record.prediction = str_upper(str_strip(LineText, SpecTrimChars))

(***************************************************************************)
(* Specification SpecMerge: merge_binary_results (helpers.py lines 210-247) *)
(* applied to two results files.  A file is the directory it lies in and   *)
(* the records json.load returns; idx is the string get_batch_results      *)
(* wrote, prediction is a string or None.                                  *)
(***************************************************************************)
MaxMergeItems == 2      \* most records of one results file

\* (prediction, correct_letter) of a record as get_batch_results writes it.
MergeValues ==
    {<<LetterA, LetterA>>, <<LetterB, LetterA>>, <<LetterB, LetterB>>,
     <<LetterB, <<"C">> >>, << <<>>, LetterB>>, << <<"A", "B">>, LetterA>>,
     <<PyNone, LetterA>>}

MergeItem(i, v) ==
    [id |-> <<"p", "1">>, idx |-> str_int(i), prediction |-> v[1],
     correct_letter |-> v[2]]

\* The orders in which the keys (p1, 0), (p1, 1), ... may stand in a file.
KeyOrders ==
    {o \in SeqsUpTo(0..(MaxMergeItems - 1), MaxMergeItems) :
        \A a, b \in 1..Len(o) : o[a] = o[b] => a = b}

MergeFiles(orders, dirs) ==
    UNION {{[dir |-> d, items |-> [k \in 1..Len(o) |-> MergeItem(o[k], vs[k])]] :
               d \in dirs, vs \in [1..Len(o) -> MergeValues]} : o \in orders}

\* line 220: results2_lookup = {(item["id"], item["idx"]): item ...}; .get(key)
\* gives the last record of results2 under the key, None (<<>>) without one.
RECURSIVE results2_lookup(_, _, _)
results2_lookup(items, id, idx) ==
    IF items = <<>> THEN <<>>
    ELSE LET last == items[Len(items)] IN
         IF last.id = id /\ last.idx = idx THEN last
         ELSE results2_lookup(SubSeq(items, 1, Len(items) - 1), id, idx)

\* Mutant: the merged record is correct when either half is.
merged_record_either(item1, item2) ==
    [id |-> item1.id, idx |-> item1.idx,
     prediction |-> item1.prediction \o item2.prediction,
     correct_letter |-> item1.correct_letter \o item2.correct_letter,
     is_correct |-> (\/ item1.prediction = item1.correct_letter
                     \/ item2.prediction = item2.correct_letter)]

\* lines 229-241: the record made of a pair
merged_record(item1, item2) ==
    [id |-> item1.id, idx |-> item1.idx,
     prediction |-> item1.prediction \o item2.prediction,
     correct_letter |-> item1.correct_letter \o item2.correct_letter,
     is_correct |-> (item1.prediction \o item2.prediction =
                        item1.correct_letter \o item2.correct_letter)]

\* line 227: raise ValueError("Missing item in results2 for key: ...")
merge_missing(acc) == [acc EXCEPT !.raised = "ValueError"]

\* "for item1 in results1" (lines 223-241).  None + str, str + None and
\* None + None raise TypeError.
RECURSIVE merge_loop(_, _, _)
merge_loop(items1, items2, acc) ==
    IF items1 = <<>> \/ acc.raised # "none" THEN acc
    ELSE LET item1 == Head(items1)
             item2 == results2_lookup(items2, item1.id, item1.idx)
         IN IF item2 = <<>>
            THEN merge_loop(Tail(items1), items2, merge_missing(acc))
            ELSE IF item1.prediction = PyNone \/ item2.prediction = PyNone
            THEN [acc EXCEPT !.raised = "TypeError"]
            ELSE merge_loop(Tail(items1), items2,
                     [acc EXCEPT !.merged_results =
                         Append(@, merged_record(item1, item2))])

\* merge_binary_results: the directory check, the loop, then the dump of
\* merged_results into merged_results.json of binary_file_1's directory.
merge_binary_results(binary_file_1, binary_file_2) ==
    IF binary_file_1.dir # binary_file_2.dir
    THEN [raised |-> "ValueError", written |-> FALSE, merged_results |-> <<>>,
          output_dir |-> "none"]
    ELSE LET r == merge_loop(binary_file_1.items, binary_file_2.items,
                     [raised |-> "none", merged_results |-> <<>>])
         IN [raised |-> r.raised, written |-> (r.raised = "none"),
             merged_results |-> IF r.raised = "none" THEN r.merged_results
                                ELSE <<>>,
             output_dir |-> IF r.raised = "none" THEN binary_file_1.dir
                            ELSE "none"]

InitMerge ==
    /\ phase = "input"
    /\ results1 \in MergeFiles({o \in KeyOrders :
                                   \A k \in 1..Len(o) : o[k] = k - 1}, {"d1"})
    /\ results2 \in MergeFiles(KeyOrders, {"d1", "d2"})
    /\ merged = <<>>
    /\ max_batch_size_mb = 0
    /\ result_line = <<>>
    /\ scored = <<>>
    /\ mcq = <<>>
    /\ prepared = <<>>
    /\ document = <<>>
    /\ images = <<>>
    /\ SplitIdle
    /\ KeyIdle
    /\ OrchIdle

MergeBinaryResults ==
    /\ phase = "input"
    /\ phase' = "merged"
    /\ merged' = merge_binary_results(results1, results2)
    /\ UNCHANGED <<max_batch_size_mb, splitVars, keyVars, orchVars,
                   result_line, scored, results1, results2, mcq, prepared,
                   document, images>>

NextMerge == MergeBinaryResults

SpecMerge == InitMerge /\ [][NextMerge]_vars

(***************************************************************************)
(* Claims about the binary merge (checked under SpecMerge).                *)
(***************************************************************************)
\* The record of results2 under the key of item1 (keys are distinct in a
\* file of the model), <<>> without one.
Counterpart(item1) == results2_lookup(results2.items, item1.id, item1.idx)

\* C13: for each (id, idx) of results1 the merge emits a record whose
\* prediction is results1's prediction followed by results2's, whose
\* correct letter is results1's followed by results2's, and whose
\* is_correct is the equality of the two concatenations.
C13_MergeConcatenates ==
    (phase = "merged" /\ merged.raised = "none") =>
        /\ merged.written
        /\ Len(merged.merged_results) = Len(results1.items)
        /\ \A k \in 1..Len(results1.items) :
              LET item1 == results1.items[k]
                  item2 == Counterpart(item1)
                  m == merged.merged_results[k]
              IN /\ m.id = item1.id
                 /\ m.idx = item1.idx
                 /\ m.prediction = item1.prediction \o item2.prediction
                 /\ m.correct_letter =
                        item1.correct_letter \o item2.correct_letter
                 /\ m.is_correct <=> (m.prediction = m.correct_letter)

\* The example: A/A and B/C give prediction AB, correct letter AC, false.
C13_Witness ==
    /\ phase = "merged"
    /\ merged.raised = "none"
    /\ Len(merged.merged_results) = 2
    /\ results2.items[1].idx = <<"1">>
    /\ merged.merged_results[1].prediction = <<"A", "B">>
    /\ merged.merged_results[1].correct_letter = <<"A", "C">>
    /\ ~merged.merged_results[1].is_correct
    /\ merged.merged_results[2].is_correct

\* C14: the merged is_correct is true iff both sub-results are individually
\* correct (results1's prediction equals results1's correct letter and
\* results2's prediction equals results2's correct letter).
C14_MergeIsStrictAnd ==
    (phase = "merged" /\ merged.raised = "none") =>
        \A k \in 1..Len(merged.merged_results) :
            LET item1 == results1.items[k]
                item2 == Counterpart(item1)
            IN merged.merged_results[k].is_correct <=>
                  (/\ item1.prediction = item1.correct_letter
                   /\ item2.prediction = item2.correct_letter)

\* C15: the merge fails with the missing-pair error whenever some (id, idx)
\* of results1 has no counterpart in results2, and then writes no file.
C15_MissingPairFails ==
    (/\ phase = "merged"
     /\ \E k \in 1..Len(results1.items) :
           Counterpart(results1.items[k]) = <<>>) =>
        /\ merged.raised = "ValueError"
        /\ ~merged.written

(***************************************************************************)
(* Claims about the cancel and delete sweeps (checked under Spec).         *)
(***************************************************************************)
\* C16: cancel_batch_jobs and delete_batch_jobs attempt the operation once
\* on every handle of batch_jobs, in order; a failure on one handle is
\* logged, does not stop the sweep over the others and is not raised.
C16_SweepIsBestEffort ==
    call.op \in {"cancel_batch_jobs", "delete_batch_jobs"} =>
        /\ call.raised = "none"
        /\ Len(call.log) = Len(batch_jobs)
        /\ \A i \in 1..Len(call.log) :
              /\ call.log[i].batch_name = batch_jobs[i].batch_name
              /\ call.log[i].outcome \in {"cancelled", "deleted", "failed"}
              /\ call.log[i].outcome = "cancelled" =>
                    remote_jobs[batch_jobs[i].batch_name].state \notin
                        {JOB_STATE_PENDING, JOB_STATE_RUNNING}
              /\ call.log[i].outcome = "deleted" =>
                    remote_jobs[batch_jobs[i].batch_name].state = JOB_DELETED

C16_Witness ==
    /\ call.op = "cancel_batch_jobs"
    /\ Len(call.log) = 2
    /\ call.log[1].outcome = "failed"
    /\ call.log[2].outcome = "cancelled"
    /\ remote_jobs[batch_jobs[1].batch_name].state = JOB_STATE_RUNNING
    /\ remote_jobs[batch_jobs[2].batch_name].state = JOB_STATE_CANCELLED

(***************************************************************************)
(* Specification SpecAnswers: the answers and the correct letter of an MCQ *)
(* item, as prepare_answers (default, whole-page, whole-document and       *)
(* without-context contexts) and build_part_pair_context compute them.     *)
(***************************************************************************)
MaxOptions == 4         \* most answer options of an MCQ item

AnswerLetters == {<<UpperCase[k]>> : k \in 1..MaxOptions}

\* The letters of an item: the correct answer's letter first, then those of
\* the incorrect answers; no letter twice.
LetterLists ==
    {l \in SeqsUpTo(AnswerLetters, MaxOptions) :
        /\ Len(l) >= 2
        /\ \A a, b \in 1..Len(l) : l[a] = l[b] => a = b}

McqItems == {MCQItemOf([letters |-> l]) : l \in LetterLists}

InitAnswers ==
    /\ phase = "input"
    /\ mcq \in [question_type : {QtDefault, QtEdit, QtBinaryConsistent,
                                 QtPartPair},
                item : McqItems]
    /\ prepared = <<>>
    /\ max_batch_size_mb = 0
    /\ result_line = <<>>
    /\ scored = <<>>
    /\ results1 = <<>>
    /\ results2 = <<>>
    /\ merged = <<>>
    /\ document = <<>>
    /\ images = <<>>
    /\ SplitIdle
    /\ KeyIdle
    /\ OrchIdle

\* build_default_context / build_without_context: prepare_answers
PrepareAnswers ==
    /\ phase = "input"
    /\ mcq.question_type # QtPartPair
    /\ phase' = "prepared"
    /\ prepared' = prepare_answers(mcq.item, mcq.question_type)
    /\ UNCHANGED <<max_batch_size_mb, splitVars, keyVars, orchVars,
                   result_line, scored, results1, results2, merged, mcq,
                   document, images>>

\* build_part_pair_context
PreparePartPair ==
    /\ phase = "input"
    /\ mcq.question_type = QtPartPair
    /\ phase' = "prepared"
    /\ prepared' = part_pair_answers(mcq.item)
    /\ UNCHANGED <<max_batch_size_mb, splitVars, keyVars, orchVars,
                   result_line, scored, results1, results2, merged, mcq,
                   document, images>>

NextAnswers == PrepareAnswers \/ PreparePartPair

SpecAnswers == InitAnswers /\ [][NextAnswers]_vars

(***************************************************************************)
(* Claims about the answer options (checked under SpecAnswers).            *)
(***************************************************************************)
\* The place of a letter among the item's letters in lexicographic order.
LetterPlace(letter) ==
    1 + Cardinality({k \in 1..Len(mcq.item.letters) :
                        str_lt(mcq.item.letters[k], letter)})

\* The answer text shown in an option (without the "X) " of the binary types).
OptionText(k) ==
    IF str_contains(mcq.question_type, <<"b", "i", "n", "a", "r", "y">>)
    THEN SubSeq(prepared.answer_options[k], 4, Len(prepared.answer_options[k]))
    ELSE prepared.answer_options[k]

\* C19: the answer options are emitted in lexicographic order of the item's
\* letters, and the correct letter returned is the letter under which the
\* correct answer stands after that sort, wherever that is.
C19_CorrectLetterAfterSort ==
    phase = "prepared" =>
        /\ Len(prepared.answer_options) = Len(mcq.item.letters)
        /\ OptionText(LetterPlace(mcq.item.letters[1])) = mcq.item.correct
        /\ \A k \in 2..Len(mcq.item.letters) :
              OptionText(LetterPlace(mcq.item.letters[k])) =
                  mcq.item.incorrect[k - 1]
        /\ \E k \in 1..Len(mcq.item.letters) :
              prepared.correct_letter = mcq.item.letters[k]
        /\ OptionText(LetterPlace(prepared.correct_letter)) = mcq.item.correct

C19_Witness ==
    /\ phase = "prepared"
    /\ mcq.question_type = QtDefault
    /\ Len(mcq.item.letters) = 4
    /\ prepared.correct_letter = <<"C">>
    /\ prepared.answer_options[3] = mcq.item.correct
    /\ mcq.item.letters[2] = <<"A">>


(***************************************************************************)
(* Claims about the requests one run builds (checked under SpecRun).       *)
(***************************************************************************)
\* The places of last_run.built holding the request of entry k.
RequestsOfEntry(k) ==
    {j \in 1..Len(last_run.built) :
        last_run.built[j].key =
            build_request(annotation_file[k], forced_mode(last_run.mode)).key}

\* The keys of the requests in the chunks uploaded to the service so far; a
\* result line exists only for such a key.
SubmittedKeys ==
    UNION {{remote_files[f][i].key : i \in 1..Len(remote_files[f])} :
              f \in 1..Len(remote_files)}

\* C21 (as stated): in a part_pair run an entry without a part_pair item is
\* skipped: it contributes no request and raises nothing (the run raises only
\* when a submission raised), and every entry that has a part_pair item
\* contributes exactly one request.
C21_AsStated ==
    (call.op = "run_mcq_inference" /\ last_run.mode.question_type = QtPartPair) =>
        /\ \A k \in 1..Len(annotation_file) :
              /\ annotation_file[k].part_pair = "none" => RequestsOfEntry(k) = {}
              /\ annotation_file[k].part_pair # "none" =>
                     Cardinality(RequestsOfEntry(k)) = 1
        /\ call.raised # "none" =>
              \E i \in 1..Len(call.log) : call.log[i] = "error"

\* An entry the part_pair run of this mode skips: its part_pair item is
\* missing, or it is there with an empty question and the run builds
\* contexts (the guard of build_part_pair_context).
SkippedInPartPairRun(entry, mode) ==
    \/ entry.part_pair = "none"
    \/ entry.part_pair = "blank" /\ ~mode.without_context

\* C21 (amended): in a part_pair run an entry without a part_pair item, and
\* in a run with contexts also an entry whose part_pair item has an empty
\* question, is skipped: it contributes no request, nothing is submitted
\* for it (so no result can come back for it) and it raises nothing (the
\* run raises only when a submission raised); every other entry contributes
\* exactly one request, the entries after a skipped one included.
C21_PartPairEntriesSkipped ==
    (call.op = "run_mcq_inference" /\ last_run.mode.question_type = QtPartPair) =>
        /\ \A k \in 1..Len(annotation_file) :
              IF SkippedInPartPairRun(annotation_file[k], last_run.mode)
              THEN /\ RequestsOfEntry(k) = {}
                   /\ build_request(annotation_file[k],
                                    forced_mode(last_run.mode)).key
                          \notin SubmittedKeys
              ELSE Cardinality(RequestsOfEntry(k)) = 1
        /\ call.raised # "none" =>
              \E i \in 1..Len(call.log) : call.log[i] = "error"

C21_Witness ==
    /\ call.op = "run_mcq_inference"
    /\ last_run.mode.question_type = QtPartPair
    /\ ~last_run.mode.without_context
    /\ call.raised = "none"
    /\ Len(annotation_file) = 2
    /\ annotation_file[1].part_pair = "none"
    /\ annotation_file[2].part_pair = "item"
    /\ Len(last_run.built) = 1
    /\ Len(batch_jobs) = 1


(***************************************************************************)
(* Specification SpecDoc: convert_whole_doc_to_base64_list (helpers.py     *)
(* lines 90-129) applied to documents of 1..MaxPages pages, rendered with  *)
(* or without an error, with every max_images, max_pages and column_num    *)
(* within the bounds.  A rendered                                          *)
(* page is its page number; an image is the list of the pages pasted into  *)
(* it, each with the grid cell (x, y) it is pasted at.                     *)
(***************************************************************************)
MaxPages == 7
MaxImages == 4
MaxPageLimit == 8
MaxColumns == 3

\* What may raise while a document is rendered: nothing, convert_from_path
\* (missing or unreadable file), or the tiling and JPEG encoding.
RenderFailures == {"none", "extract", "encode"}

\* extract_pdf_pages (lines 50-59): convert_from_path(last_page=max_pages)
\* renders the pages 1..max_pages of the document; when it raises, the
\* except branch (lines 57-59) returns [].
extract_pdf_pages(pdf, max_pages) ==
    IF pdf.fails = "extract" THEN <<>>
    ELSE [k \in 1..(IF pdf.pages < max_pages THEN pdf.pages ELSE max_pages) |-> k]

\* concat_images (lines 62-87): the pages pasted left to right, a new row
\* after every column_num pages.
concat_images(batch_pages, column_num) ==
    [k \in 1..Len(batch_pages) |->
        [page |-> batch_pages[k],
         x |-> (k - 1) % column_num,
         y |-> (k - 1) \div column_num]]

\* Mutant: the number of pages per image is rounded down.
pages_per_image_floor(n, max_images) ==
    IF n \div max_images = 0 THEN 1 ELSE n \div max_images

\* line 104: math.ceil(len(all_pages) / max_images)
pages_per_image_of(n, max_images) == (n + max_images - 1) \div max_images

\* lines 107-124: the loop over range(0, len(all_pages), pages_per_image),
\* from offset i (0-based) on, with the images appended so far.
RECURSIVE whole_doc_loop(_, _, _, _, _, _)
whole_doc_loop(all_pages, i, pages_per_image, max_images, column_num, base64_images) ==
    IF i >= Len(all_pages) THEN base64_images
    ELSE LET last == IF i + pages_per_image < Len(all_pages)
                     THEN i + pages_per_image ELSE Len(all_pages)
             batch_pages == SubSeq(all_pages, i + 1, last)
             appended == Append(base64_images,
                                concat_images(batch_pages, column_num))
         IN IF Len(appended) >= max_images THEN appended
            ELSE whole_doc_loop(all_pages, i + pages_per_image,
                                pages_per_image, max_images, column_num,
                                appended)

\* lines 98-128; an exception raised inside the try block gives [] (lines
\* 126-128).
convert_whole_doc_to_base64_list(pdf, max_images, column_num, max_pages) ==
    LET all_pages == extract_pdf_pages(pdf, max_pages) IN
    IF all_pages = <<>> THEN <<>>
    ELSE IF pdf.fails = "encode" THEN <<>>
    ELSE whole_doc_loop(all_pages, 0,
                        pages_per_image_of(Len(all_pages), max_images),
                        max_images, column_num, <<>>)

InitDoc ==
    /\ phase = "input"
    /\ document \in [pdf : [pages : 1..MaxPages, fails : RenderFailures],
                      max_images : 1..MaxImages,
                      column_num : 1..MaxColumns, max_pages : 1..MaxPageLimit]
    /\ images = <<>>
    /\ max_batch_size_mb = 0
    /\ result_line = <<>>
    /\ scored = <<>>
    /\ results1 = <<>>
    /\ results2 = <<>>
    /\ merged = <<>>
    /\ mcq = <<>>
    /\ prepared = <<>>
    /\ SplitIdle
    /\ KeyIdle
    /\ OrchIdle

ConvertWholeDoc ==
    /\ phase = "input"
    /\ phase' = "rendered"
    /\ images' = convert_whole_doc_to_base64_list(document.pdf,
                      document.max_images, document.column_num,
                      document.max_pages)
    /\ UNCHANGED <<max_batch_size_mb, splitVars, keyVars, orchVars,
                   result_line, scored, results1, results2, merged, mcq,
                   prepared, document>>

NextDoc == ConvertWholeDoc

SpecDoc == InitDoc /\ [][NextDoc]_vars

\* The pages of the images, in the order of the images and of the pasting.
PagesTiled ==
    Flatten([k \in 1..Len(images) |->
                [j \in 1..Len(images[k]) |-> images[k][j].page]])

\* At most max_images images, none empty, whose pages one after the other
\* are the pages 1..n of the document.
TilesWholeDocument ==
    /\ Len(images) <= document.max_images
    /\ \A k \in 1..Len(images) : images[k] # <<>>
    /\ PagesTiled = [k \in 1..document.pdf.pages |-> k]

\* C22 (as stated): the rendering of a document of n >= 1 pages with
\* max_images = m >= 1 yields at most m images, each tiling a contiguous
\* run of pages, in page order, together covering every page once.
C22_AsStated == phase = "rendered" => TilesWholeDocument

\* C22 (amended): the same for a document that renders without an error
\* and whose number of pages does not exceed max_pages (default 1000); the
\* pages beyond max_pages are not rendered at all, and a document whose
\* rendering raises gives no image.
C22_WholeDocTiling ==
    /\ (/\ phase = "rendered"
        /\ document.pdf.fails = "none"
        /\ document.pdf.pages <= document.max_pages) => TilesWholeDocument
    /\ (phase = "rendered" /\ document.pdf.fails # "none") => images = <<>>

C22_Witness ==
    /\ phase = "rendered"
    /\ document.pdf.pages = 5
    /\ document.pdf.fails = "none"
    /\ document.max_images = 3
    /\ document.max_pages >= 5
    /\ Len(images) = 3
    /\ Len(images[3]) = 1


(***************************************************************************)
(* Specification SpecFetch: runs, the remote service (whose succeeded jobs *)
(* may hold an output file without lines, or name no output file) and      *)
(* get_batch_results.                                                      *)
(***************************************************************************)
NextFetch ==
    \/ \E mode \in RunModes, fail \in SubmitFailures(MaxJobs) :
          RunMcqInference(mode, fail)
    \/ \E j \in 1..Len(remote_jobs) : RemoteRun(j)
    \/ \E j \in 1..Len(remote_jobs) : RemoteSucceed(j)
    \/ \E j \in 1..Len(remote_jobs) : RemoteSucceedEmpty(j)
    \/ \E j \in 1..Len(remote_jobs) : RemoteSucceedNoFile(j)
    \/ \E j \in 1..Len(remote_jobs) :
          \E state \in {JOB_STATE_FAILED, JOB_STATE_EXPIRED} :
              RemoteEnd(j, state)
    \/ \E fail \in FetchFailures(MaxJobs) : GetBatchResults(fail)

SpecFetch == Init /\ [][NextFetch]_vars

\* The exceptions raised by a raise statement of get_batch_results (lines
\* 224, 239, 253) or by the provider's client.
ExplicitExceptions == {"ValueError", "RemoteError"}

\* C23: every get_batch_results call ends in one of two ways: the results
\* file is written with one record for every line of every job, or an
\* explicit exception naming the fatal condition is raised and the results
\* file is left as it was.
C23_FileOrExplicitException ==
    [][(\E fail \in FetchFailures(MaxJobs) : GetBatchResults(fail)) =>
          \/ /\ call'.raised = "none"
             /\ results_file'.written
             /\ results_file'.content = responses'
             /\ Len(responses') = Len(RawLines)
          \/ /\ call'.raised \in ExplicitExceptions
             /\ results_file' = results_file]_vars

\* A retrieval whose jobs all succeeded and hold no line at all.
C23_ZeroLines ==
    /\ call.op = "get_batch_results"
    /\ call.raised = "UnboundLocalError"
    /\ call.log # <<>>
    /\ \A i \in 1..Len(call.log) : call.log[i].downloaded


\* C24: the requests a run_mcq_inference call chunks and submits are exactly
\* the requests built from that call's annotations, one per (id, idx); the
\* requests of an earlier call on the same object are not submitted again.
C24_RunSubmitsOnlyOwnRequests ==
    call.op = "run_mcq_inference" =>
        /\ Flatten(last_run.batch_splits) = last_run.built
        /\ \A a, b \in 1..Len(Flatten(last_run.batch_splits)) :
              Flatten(last_run.batch_splits)[a].key =
                  Flatten(last_run.batch_splits)[b].key => a = b


\* C25: the chunks are submitted strictly in chunk order; the upload of a
\* chunk precedes the creation of its job, and its handle is recorded only
\* after both succeeded: batch_jobs holds one handle per submitted chunk, in
\* chunk order, each naming the uploaded chunk and the job created from it;
\* no chunk after the one that raised is attempted; and when the call
\* returns, the primary (file, job) reference is the first handle.
C25_SubmissionOrder ==
    call.op = "run_mcq_inference" =>
        /\ Len(call.log) = Len(last_run.batch_splits)
        /\ Len(batch_jobs) <= Len(call.log)
        /\ \A i \in 1..Len(call.log) :
              /\ call.log[i] = "submitted" <=> i <= Len(batch_jobs)
              /\ (i > 1 /\ call.log[i] # "not_attempted") =>
                     call.log[i - 1] = "submitted"
        /\ \A i \in 1..Len(batch_jobs) :
              /\ batch_jobs[i].file_name \in 1..Len(remote_files)
              /\ batch_jobs[i].batch_name \in 1..Len(remote_jobs)
              /\ remote_files[batch_jobs[i].file_name] = last_run.batch_splits[i]
              /\ remote_jobs[batch_jobs[i].batch_name].src = batch_jobs[i].file_name
              /\ i > 1 => /\ batch_jobs[i - 1].file_name < batch_jobs[i].file_name
                          /\ batch_jobs[i - 1].batch_name < batch_jobs[i].batch_name
        /\ \A j \in 1..Len(remote_jobs) : remote_jobs[j].src \in 1..Len(remote_files)
        /\ call.raised = "RemoteError" => Len(batch_jobs) < Len(call.log)
        /\ (call.raised = "none" /\ batch_jobs # <<>>) =>
              /\ file_name = batch_jobs[1].file_name
              /\ batch_name = batch_jobs[1].batch_name

\* A run that submitted two chunks and returned.
C25_Witness ==
    /\ call.op = "run_mcq_inference"
    /\ call.raised = "none"
    /\ Len(batch_jobs) = 2
    /\ call.log = <<"submitted", "submitted">>
    /\ batch_name = batch_jobs[1].batch_name
    /\ batch_jobs[2].batch_name = 2
    /\ remote_jobs[2].src = batch_jobs[2].file_name


(***************************************************************************)
(* Further claims about the job lifecycle (checked under Spec).            *)
(***************************************************************************)
\* C26 (as stated): terminal states are absorbing: once a job is in
\* Succeeded, Failed, Cancelled or Expired, no operation (poll, wait, fetch,
\* cancel sweep, delete sweep) changes the state a poll of its handle finds.
C26_AsStated ==
    [][\A j \in 1..Len(remote_jobs) :
          remote_jobs[j].state \in completed_states =>
              remote_jobs'[j].state = remote_jobs[j].state]_vars

\* C26 (amended): the same for poll, wait, fetch and cancel sweep; the only
\* step that changes a job in a terminal state is a delete sweep that
\* removes it.  A poll reports a job in a terminal state with that state
\* when its status query succeeds, and a removed job with "error".
C26_TerminalAbsorbing ==
    [][/\ \A j \in 1..Len(remote_jobs) :
             remote_jobs[j].state \in completed_states =>
                 \/ remote_jobs'[j].state = remote_jobs[j].state
                 \/ /\ call'.op = "delete_batch_jobs"
                    /\ remote_jobs'[j].state = JOB_DELETED
       /\ \A errs \in SweepErrors(MaxJobs) :
             GetBatchStatus(errs) =>
                 \A i \in 1..Len(call'.log) :
                     LET state == remote_jobs[call'.log[i].batch_name].state
                     IN  /\ state = JOB_DELETED =>
                                call'.log[i].status = "error"
                         /\ (state \in completed_states /\ i \notin errs) =>
                                call'.log[i].status = state]_vars

\* A cancel sweep whose call went through for a job that had succeeded.
C26_Witness ==
    /\ call.op = "cancel_batch_jobs"
    /\ \E i \in 1..Len(call.log) :
          /\ call.log[i].outcome = "cancelled"
          /\ remote_jobs[call.log[i].batch_name].state = JOB_STATE_SUCCEEDED


\* C27: get_batch_status reports every handle: a handle whose status query
\* raised with status "error", the others with their job's state; and a
\* sweep of wait_for_completion that holds an "error" never ends the wait
\* as completed: with an erroring handle the wait ends only by the timeout.
C27_ErrorStatusIsNonTerminal ==
    [][/\ \A errs \in SweepErrors(MaxJobs) :
             (GetBatchStatus(errs) /\ jobs_to_process # <<>>) =>
                /\ call'.returned = "batch_jobs"
                /\ Len(call'.log) = Len(jobs_to_process)
                /\ \A i \in 1..Len(call'.log) :
                      /\ call'.log[i].batch_name = jobs_to_process[i].batch_name
                      /\ i \in errs => call'.log[i].status = "error"
                      /\ call'.log[i].status # "error" =>
                             call'.log[i].status =
                                 remote_jobs[call'.log[i].batch_name].state
       /\ \A d \in 0..MaxPollDelay, errs \in SweepErrors(MaxJobs) :
             (/\ WaitIteration(d, errs)
              /\ \E i \in 1..Len(call'.log) : call'.log[i].status = "error") =>
                /\ call'.outcome \in {"sleeping", "timeout"}
                /\ call'.outcome = "timeout" => call'.elapsed > call'.timeout
                /\ call'.outcome = "sleeping" => wait'.pc = "polling"]_vars

\* A wait that ended by the timeout with one handle erroring and the other
\* succeeded.
C27_Witness ==
    /\ call.op = "wait_for_completion"
    /\ call.outcome = "timeout"
    /\ Len(call.log) = 2
    /\ call.log[1].status = JOB_STATE_SUCCEEDED
    /\ call.log[2].status = "error"
    /\ remote_jobs[call.log[2].batch_name].state = JOB_STATE_SUCCEEDED


\* C28: get_batch_results is idempotent: when the call before was a
\* get_batch_results that read the output file of every job, calling it
\* again (the remote calls going through) ends the same way and leaves
\* self.responses and the results file with the same records in the same
\* order, one per line of every job.
C28_GetBatchResultsIdempotent ==
    [][(/\ GetBatchResults([job |-> 0, step |-> "none"])
        /\ call.op = "get_batch_results"
        /\ call.log # <<>>
        /\ \A i \in 1..Len(call.log) : call.log[i].downloaded) =>
            /\ responses' = responses
            /\ results_file' = results_file
            /\ call'.raised = call.raised
            /\ call'.log = call.log
            /\ call.raised = "none" => Len(responses') = Len(RawLines)]_vars

\* A repeated call after which responses holds the two lines' records once.
C28_Witness ==
    /\ call.op = "get_batch_results"
    /\ call.outcome = "repeated"
    /\ call.raised = "none"
    /\ Len(RawLines) = 2
    /\ Len(responses) = 2
    /\ results_file.written
    /\ results_file.content = responses


(***************************************************************************)
(* Specification SpecParts: the reconciliation of one line whose response  *)
(* holds up to MaxParts parts (Gemini) or up to MaxItems output items of   *)
(* up to MaxParts content parts each (OpenAI).                             *)
(***************************************************************************)
MaxParts == 2
MaxItems == 2

\* The texts of a part: empty, or the letter "a".
PartTexts == {<<>>, <<"a">>}

\* candidates[0].content.parts: text parts and parts without text.
GeminiParts == {[text |-> t] : t \in PartTexts} \cup {[inlineData |-> "image"]}

\* The content parts of an OpenAI message item.
OpenAIParts ==
    {[type |-> "output_text", text |-> t] : t \in PartTexts}
        \cup {[type |-> "refusal"]}

\* The items of an OpenAI response's output.
OpenAIItems ==
    {[type |-> "reasoning"]} \cup
    {[type |-> "message", content |-> c] : c \in SeqsUpTo(OpenAIParts, MaxParts)}

PartLines(provider) ==
    IF provider = "gemini"
    THEN {[key |-> ScoreKey(l),
           response |-> [candidates |-> <<[content |-> [parts |-> ps]]>>]] :
              l \in KeyLetters, ps \in SeqsUpTo(GeminiParts, MaxParts)}
    ELSE {[custom_id |-> ScoreKey(l), response |-> [body |-> [output |-> o]]] :
              l \in KeyLetters, o \in SeqsUpTo(OpenAIItems, MaxItems)}

InitParts ==
    /\ phase = "input"
    /\ key_provider \in {"gemini", "openai"}
    /\ result_line \in PartLines(key_provider)
    /\ scored = <<>>
    /\ max_batch_size_mb = 0
    /\ key_fields = <<>>
    /\ key_format = "none"
    /\ custom_id = <<>>
    /\ decoded = <<>>
    /\ results1 = <<>>
    /\ results2 = <<>>
    /\ merged = <<>>
    /\ mcq = <<>>
    /\ prepared = <<>>
    /\ document = <<>>
    /\ images = <<>>
    /\ SplitIdle
    /\ OrchIdle

NextParts == ScoreLine

SpecParts == InitParts /\ [][NextParts]_vars

\* The texts of the text parts of the line's first message-typed output
\* item, in part order: for Gemini the first candidate's content, for OpenAI
\* the first item of type "message".
RECURSIVE texts_of(_)
texts_of(parts) ==
    IF parts = <<>> THEN <<>>
    ELSE (IF "text" \in DOMAIN Head(parts) THEN <<Head(parts).text>> ELSE <<>>)
         \o texts_of(Tail(parts))

FirstMessageTexts ==
    IF key_provider = "gemini"
    THEN texts_of(result_line.response.candidates[1].content.parts)
    ELSE LET output == result_line.response.body.output
             ms == {k \in 1..Len(output) : output[k].type = "message"}
         IN IF ms = {} THEN <<>>
            ELSE texts_of(output[CHOOSE k \in ms : \A j \in ms : k <= j].content)

\* The first non-empty one of these texts, None when there is none.
FirstNonEmptyText ==
    LET ts == FirstMessageTexts
        ks == {k \in 1..Len(ts) : ts[k] # <<>>}
    IN IF ks = {} THEN PyNone ELSE ts[CHOOSE k \in ks : \A j \in ks : k <= j]

\* C29: the prediction of a line is made from the first non-empty text part
\* of the first message-typed output item (then normalized); when there is
\* no such part the prediction is None.
C29_FirstNonEmptyTextPart ==
    phase = "scored" =>
        scored.record.prediction =
            IF FirstNonEmptyText = PyNone THEN PyNone
            ELSE str_upper(str_strip(FirstNonEmptyText, StripChars))


\* C30: polling is read-only: get_batch_status leaves the list of job
\* handles, the primary handle, the pending request list and the collected
\* responses as they were, whatever status it reports for each handle.
C30_PollingIsReadOnly ==
    [][\A errs \in SweepErrors(MaxJobs) :
          GetBatchStatus(errs) =>
              /\ batch_jobs' = batch_jobs
              /\ file_name' = file_name
              /\ batch_name' = batch_name
              /\ batch_requests' = batch_requests
              /\ responses' = responses]_vars

\* A poll that reported one handle as succeeded and one as "error", on an
\* object holding two handles and collected responses.
C30_Witness ==
    /\ call.op = "get_batch_status"
    /\ Len(call.log) = 2
    /\ call.log[1].status = JOB_STATE_SUCCEEDED
    /\ call.log[2].status = "error"
    /\ Len(batch_jobs) = 2
    /\ batch_name = batch_jobs[1].batch_name
    /\ batch_requests # <<>>
    /\ responses # <<>>

====
